---- MODULE Spec2Model ----
(***************************************************************************)
(* A model of the study helper worker: the ChatStorage durable object      *)
(* (src/src/chatStorage.js), the StorageService and AIService wrappers      *)
(* (src/src/services/ai-service.js), the validators and the reply decoder   *)
(* (src/src/utils), and the modular request handlers (src/src/handlers).    *)
(*                                                                         *)
(* JSON values are records tagged by t: strings are sequences of           *)
(* one-character strings, arrays are sequences of values, and an object is  *)
(* a function from the field names it has to their values.                  *)
(***************************************************************************)
EXTENDS Integers, Sequences, FiniteSets, TLC

----------------------------------------------------------------------------
(* Bounds *)

\* Longest questions / flashcards / results array a model reply carries.
MaxItems == 2

----------------------------------------------------------------------------
(* JSON values *)

Undefined == [t |-> "undefined"]
Null == [t |-> "null"]
Str(s) == [t |-> "string", s |-> s]
Num(n) == [t |-> "number", n |-> n]
Arr(items) == [t |-> "array", items |-> items]
Obj(f) == [t |-> "object", f |-> f]
EmptyObject == Obj(<<>>)

\* key in obj
HasField(o, k) == o.t = "object" /\ k \in DOMAIN o.f

\* obj[key] (undefined when the object has no such field)
Field(o, k) == IF HasField(o, k) THEN o.f[k] ELSE Undefined

\* !v
Falsy(v) ==
    \/ v.t \in {"undefined", "null"}
    \/ v.t = "string" /\ v.s = <<>>
    \/ v.t = "number" /\ v.n = 0

\* a || b
OrElse(a, b) == IF Falsy(a) THEN b ELSE a

\* JSON.parse(JSON.stringify(v)): the form in which a value crosses the
\* stub.fetch boundary.  Object fields holding undefined are dropped, and
\* undefined itself has no JSON text.
RECURSIVE JSONRoundTrip(_)
JSONRoundTrip(v) ==
    IF v.t = "object"
    THEN Obj([k \in {j \in DOMAIN v.f : v.f[j].t # "undefined"}
                 |-> JSONRoundTrip(v.f[k])])
    ELSE IF v.t = "array"
    THEN Arr([i \in 1..Len(v.items) |->
                 IF v.items[i].t = "undefined" THEN Null
                 ELSE JSONRoundTrip(v.items[i])])
    ELSE v

\* String.prototype.trim over the one whitespace character of the model.
RECURSIVE TrimLeft(_)
TrimLeft(s) == IF s # <<>> /\ Head(s) = " " THEN TrimLeft(Tail(s)) ELSE s

RECURSIVE TrimRight(_)
TrimRight(s) ==
    IF s # <<>> /\ s[Len(s)] = " "
    THEN TrimRight(SubSeq(s, 1, Len(s) - 1))
    ELSE s

Trim(s) == TrimRight(TrimLeft(s))

----------------------------------------------------------------------------
(* utils/constants.js *)

DEFAULTS_SESSION_ID == "default"

----------------------------------------------------------------------------
(* utils/validators.js *)

\* A validation that only tests the class name for truthiness.
validateClassNameTruthy(className) ==
    IF Falsy(className) THEN "Class name is required" ELSE "ok"

\* validateClassName: the message of the Error thrown, or "ok".
validateClassName(className) ==
    IF Falsy(className) \/ className.t # "string"
    THEN "Class name is required"
    ELSE IF Len(Trim(className.s)) = 0
    THEN "Class name cannot be empty"
    ELSE "ok"

\* A number with one decimal place: whole + tenth / 10, for tenth in 1..9.
Frac(whole, tenth) == [t |-> "number", n |-> whole, tenth |-> tenth]

DigitChars == <<"0", "1", "2", "3", "4", "5", "6", "7", "8", "9">>

DigitValue ==
    [c \in {DigitChars[i] : i \in 1..10} |->
        CHOOSE v \in 0..9 : DigitChars[v + 1] = c]

\* The decimal digits of a natural number.
RECURSIVE DigitsOf(_)
DigitsOf(n) ==
    IF n < 10 THEN <<DigitChars[n + 1]>>
    ELSE Append(DigitsOf(n \div 10), DigitChars[(n % 10) + 1])

\* String(v) as far as parseInt can read into it: the whole text of a string
\* or a number, the text of the first element of an array, and for every
\* other value a text that starts with a letter or a bracket.
RECURSIVE ToStringOf(_)
ToStringOf(v) ==
    IF v.t = "string" THEN v.s
    ELSE IF v.t = "number"
    THEN (IF v.n < 0 THEN <<"-">> \o DigitsOf(-v.n) ELSE DigitsOf(v.n))
            \o (IF "tenth" \in DOMAIN v THEN <<".", DigitChars[v.tenth + 1]>>
                ELSE <<>>)
    ELSE IF v.t = "array"
    THEN (IF v.items = <<>> \/ v.items[1].t \in {"null", "undefined"} THEN <<>>
          ELSE ToStringOf(v.items[1]))
    ELSE <<"x">>

\* The length of the longest prefix of s made of digits.
RECURSIVE DigitPrefixLen(_)
DigitPrefixLen(s) ==
    IF s # <<>> /\ Head(s) \in DOMAIN DigitValue
    THEN 1 + DigitPrefixLen(Tail(s))
    ELSE 0

\* The number a sequence of digits writes.
RECURSIVE ValueOfDigits(_)
ValueOfDigits(s) ==
    IF s = <<>> THEN 0
    ELSE 10 * ValueOfDigits(SubSeq(s, 1, Len(s) - 1)) + DigitValue[s[Len(s)]]

NaN == [t |-> "NaN"]

\* parseInt(v, 10): leading whitespace is skipped, a sign is read, then the
\* longest run of digits; NaN when there is no digit to read.
parseInt(v) ==
    LET text == TrimLeft(ToStringOf(v))
        signed == text # <<>> /\ Head(text) \in {"-", "+"}
        rest == IF signed THEN Tail(text) ELSE text
        k == DigitPrefixLen(rest)
        magnitude == ValueOfDigits(SubSeq(rest, 1, k))
    IN  IF k = 0 THEN NaN
        ELSE Num(IF signed /\ Head(text) = "-" THEN -magnitude ELSE magnitude)

\* A validateCount that has lost its test against max.
validateCountNoMax(count, min, max) ==
    LET num == parseInt(count)
    IN  IF num = NaN THEN Num(min)
        ELSE IF num.n < min THEN Num(min)
        ELSE num

\* validateCount(count, min, max)
validateCount(count, min, max) ==
    LET num == parseInt(count)
    IN  IF num = NaN THEN Num(min)
        ELSE IF num.n < min THEN Num(min)
        ELSE IF num.n > max THEN Num(max)
        ELSE num

\* validateAnswers: the message of the Error thrown, or "ok".
validateAnswers(answers) ==
    IF Falsy(answers) \/ answers.t # "array"
    THEN "Answers array is required"
    ELSE IF Len(answers.items) = 0
    THEN "Answers array cannot be empty"
    ELSE "ok"

----------------------------------------------------------------------------
(* utils/json-parser.js *)

\* Index of the first "{" of s, 0 when there is none.
FirstOpen(s) ==
    IF \E i \in 1..Len(s) : s[i] = "{"
    THEN CHOOSE i \in 1..Len(s) :
            s[i] = "{" /\ \A j \in 1..(i - 1) : s[j] # "{"
    ELSE 0

\* Index of the last "}" of s, 0 when there is none.
LastClose(s) ==
    IF \E i \in 1..Len(s) : s[i] = "}"
    THEN CHOOSE i \in 1..Len(s) :
            s[i] = "}" /\ \A j \in (i + 1)..Len(s) : s[j] # "}"
    ELSE 0

\* A match that stops at the first "}" after the first "{".
JsonMatchLazy(s) ==
    IF FirstOpen(s) > 0 /\ \E j \in (FirstOpen(s) + 1)..Len(s) : s[j] = "}"
    THEN SubSeq(s, FirstOpen(s),
                CHOOSE j \in (FirstOpen(s) + 1)..Len(s) :
                    s[j] = "}" /\ \A i \in (FirstOpen(s) + 1)..(j - 1) : s[i] # "}")
    ELSE <<>>

\* responseText.match(/\{[\s\S]*\}/): the greedy span from the first "{" to
\* the last "}" after it; <<>> stands for no match.
JsonMatch(s) ==
    IF FirstOpen(s) > 0 /\ LastClose(s) > FirstOpen(s)
    THEN SubSeq(s, FirstOpen(s), LastClose(s))
    ELSE <<>>

\* The field names a model reply is written with: one token of the text
\* stands for the quoted key, the colon and the opening bracket.
KeyOfToken ==
    [F |-> "flashcards", Q |-> "questions", R |-> "results"]

\* JSON.parse over the texts of the model: "{" key "[" items "]" "}" is an
\* object with one array field, its items a run of "{" "}" pairs, each an
\* empty object; "{" "}" is the empty object; every other text is a
\* SyntaxError.
JSONParseOk(s) ==
    LET items == SubSeq(s, 4, Len(s) - 2)
    IN  \/ s = <<"{", "}">>
        \/ /\ Len(s) >= 5
           /\ s[1] = "{"
           /\ s[2] \in DOMAIN KeyOfToken
           /\ s[3] = "["
           /\ s[Len(s) - 1] = "]"
           /\ s[Len(s)] = "}"
           /\ Len(items) % 2 = 0
           /\ \A i \in 1..Len(items) :
                 items[i] = (IF i % 2 = 1 THEN "{" ELSE "}")

JSONParse(s) ==
    IF s = <<"{", "}">>
    THEN EmptyObject
    ELSE Obj([k \in {KeyOfToken[s[2]]} |->
                 Arr([i \in 1..((Len(s) - 5) \div 2) |-> EmptyObject])])

\* One turn of the structure loop of parseAIResponse, for the entry
\* [key, expectedType]: the message of the Error thrown (without the name of
\* the field), or "ok".  typeof is 'object' for an object, an array and null.
CheckField(parsedData, key, expectedType) ==
    IF ~HasField(parsedData, key)
    THEN "Missing expected field"
    ELSE IF expectedType = "array" /\ Field(parsedData, key).t # "array"
    THEN "Field should be an array"
    ELSE IF expectedType = "object"
              /\ Field(parsedData, key).t \notin {"object", "array", "null"}
    THEN "Field should be an object"
    ELSE "ok"

\* The structure loop over Object.entries(expectedStructure), a sequence of
\* <<key, expectedType>> in insertion order: the first Error thrown, or "ok".
RECURSIVE CheckStructure(_, _)
CheckStructure(parsedData, expectedStructure) ==
    IF expectedStructure = <<>> THEN "ok"
    ELSE LET entry == Head(expectedStructure)
             message == CheckField(parsedData, entry[1], entry[2])
         IN  IF message # "ok" THEN message
             ELSE CheckStructure(parsedData, Tail(expectedStructure))

\* The structure check of parseAIResponse for one expected array field.
CheckArrayField(parsedData, key) == CheckField(parsedData, key, "array")

\* A parseAIResponse that returns the expected fields only.
parseAIResponseProjecting(reply, expectedStructure) ==
    LET fail(m) == [ok |-> FALSE, error |-> m, value |-> Undefined]
        expected == {expectedStructure[i][1] : i \in DOMAIN expectedStructure}
        check(parsedData) ==
            IF CheckStructure(parsedData, expectedStructure) = "ok"
            THEN [ok |-> TRUE, error |-> "ok",
                  value |-> Obj([k \in expected |-> parsedData.f[k]])]
            ELSE fail(CheckStructure(parsedData, expectedStructure))
    IN  IF reply.t \in {"object", "array"}
        THEN check(reply)
        ELSE IF reply.t = "string"
        THEN IF JsonMatch(Trim(reply.s)) = <<>>
             THEN fail("No JSON found in response")
             ELSE IF ~JSONParseOk(JsonMatch(Trim(reply.s)))
             THEN fail("SyntaxError")
             ELSE check(JSONParse(JsonMatch(Trim(reply.s))))
        ELSE fail("Unexpected response format")

\* A parseAIResponse without the test `responseData !== null`: null is taken
\* for an object, and `key in null` throws a TypeError.
parseAIResponseNullAsObject(reply, expectedStructure) ==
    LET fail(m) == [ok |-> FALSE, error |-> m, value |-> Undefined]
        check(parsedData) ==
            IF CheckStructure(parsedData, expectedStructure) = "ok"
            THEN [ok |-> TRUE, error |-> "ok", value |-> parsedData]
            ELSE fail(CheckStructure(parsedData, expectedStructure))
    IN  IF reply.t = "null"
        THEN IF expectedStructure = <<>>
             THEN [ok |-> TRUE, error |-> "ok", value |-> reply]
             ELSE fail("TypeError")
        ELSE IF reply.t \in {"object", "array"}
        THEN check(reply)
        ELSE IF reply.t = "string"
        THEN IF JsonMatch(Trim(reply.s)) = <<>>
             THEN fail("No JSON found in response")
             ELSE IF ~JSONParseOk(JsonMatch(Trim(reply.s)))
             THEN fail("SyntaxError")
             ELSE check(JSONParse(JsonMatch(Trim(reply.s))))
        ELSE fail("Unexpected response format")

\* parseAIResponse(response, expectedStructure) on response.response = reply:
\* [ok |-> TRUE, value |-> parsedData] or [ok |-> FALSE, error |-> message].
\* An array is an object to typeof and has none of the expected keys.
parseAIResponseWith(reply, expectedStructure) ==
    LET fail(m) == [ok |-> FALSE, error |-> m, value |-> Undefined]
        check(parsedData) ==
            IF CheckStructure(parsedData, expectedStructure) = "ok"
            THEN [ok |-> TRUE, error |-> "ok", value |-> parsedData]
            ELSE fail(CheckStructure(parsedData, expectedStructure))
    IN  IF reply.t \in {"object", "array"}
        THEN check(reply)
        ELSE IF reply.t = "string"
        THEN IF JsonMatch(Trim(reply.s)) = <<>>
             THEN fail("No JSON found in response")
             ELSE IF ~JSONParseOk(JsonMatch(Trim(reply.s)))
             THEN fail("SyntaxError")
             ELSE check(JSONParse(JsonMatch(Trim(reply.s))))
        ELSE fail("Unexpected response format")

\* parseAIResponse(response, {key: 'array'}), the call of every AIService
\* method.
parseAIResponse(reply, key) == parseAIResponseWith(reply, <<<<key, "array">>>>)

----------------------------------------------------------------------------
(* utils/response-helpers.js *)

\* A fixed, non-empty string literal of the source (a message, a mode name).
Text(m) == [t |-> "text", m |-> m]

\* jsonResponse(data, status)
jsonResponse(data, status) == [status |-> status, body |-> JSONRoundTrip(data)]

\* errorResponse(message, status, corsHeaders, details): details = "" stands
\* for the default null, which leaves the details field out.
errorResponse(message, status, details) ==
    [status |-> status,
     body |-> IF details = ""
              THEN Obj([error |-> Text(message)])
              ELSE Obj([error |-> Text(message), details |-> Text(details)])]

\* error.message.includes('required') || error.message.includes('empty')
IncludesRequiredOrEmpty(message) ==
    message \in {"Class name is required", "Class name cannot be empty",
                 "Answers array is required", "Answers array cannot be empty"}

\* The catch block shared by the generate and grade handlers.
catchResponse(message) ==
    IF IncludesRequiredOrEmpty(message)
    THEN errorResponse(message, 400, "")
    ELSE errorResponse(message, 500, message)

----------------------------------------------------------------------------
(* chatStorage.js *)

StorageKeys == {"session", "content", "progress"}

\* state.storage of a durable object nobody has written to.
EmptyStorage == [k \in StorageKeys |-> Undefined]

SuccessBody == Obj([success |-> [t |-> "true"]])

\* What each GET branch answers when the key holds nothing (or a falsy
\* value): (await this.state.storage.get(key)) || default.
DefaultOfObjectForContent ==
    [session |-> EmptyObject, content |-> EmptyObject, progress |-> EmptyObject]

DefaultOf == [session |-> EmptyObject, content |-> Null, progress |-> EmptyObject]

StorageGet(storage, key) == OrElse(storage[key], DefaultOf[key])

\* A put that merges the fields of the new object into the stored one.
StoragePutMerge(storage, key, value) ==
    IF storage[key].t = "object" /\ value.t = "object"
    THEN [storage EXCEPT ![key] =
             Obj([k \in DOMAIN storage[key].f \cup DOMAIN value.f |->
                     IF k \in DOMAIN value.f THEN value.f[k]
                     ELSE storage[key].f[k]])]
    ELSE [storage EXCEPT ![key] = value]

\* A put that keeps a value the key already holds.
StoragePutIfAbsent(storage, key, value) ==
    IF storage[key] = Undefined THEN [storage EXCEPT ![key] = value] ELSE storage

\* this.state.storage.put(key, value)
StoragePut(storage, key, value) == [storage EXCEPT ![key] = value]

\* A clear that deletes the content key only.
StorageDeleteContentOnly(storage) == [storage EXCEPT !["content"] = Undefined]

\* this.state.storage.deleteAll()
StorageDeleteAll(storage) == EmptyStorage

\* A store whose /clear branch, like its /session branch, does not test the
\* method.
ChatStorage_fetchClearAnyMethod(storage, pathname, method, body) ==
    LET reply(st, b) == [storage |-> st, status |-> 200, json |-> TRUE, body |-> b]
    IN  IF pathname = "/session"
        THEN reply(storage, StorageGet(storage, "session"))
        ELSE IF pathname = "/content" /\ method = "POST"
        THEN reply(StoragePut(storage, "content", body), SuccessBody)
        ELSE IF pathname = "/content"
        THEN reply(storage, StorageGet(storage, "content"))
        ELSE IF pathname = "/progress" /\ method = "POST"
        THEN reply(StoragePut(storage, "progress", body), SuccessBody)
        ELSE IF pathname = "/progress"
        THEN reply(storage, StorageGet(storage, "progress"))
        ELSE IF pathname = "/clear"
        THEN reply(StorageDeleteAll(storage), SuccessBody)
        ELSE [storage |-> storage, status |-> 404, json |-> FALSE,
              body |-> Text("Not Found")]

\* ChatStorage.fetch: the branches are tried in source order, so the GET
\* branch of /session, which does not look at the method, answers a POST to
\* /session as well.  json tells whether the response body is JSON text.
ChatStorage_fetch(storage, pathname, method, body) ==
    LET reply(st, b) == [storage |-> st, status |-> 200, json |-> TRUE, body |-> b]
    IN  IF pathname = "/session"
        THEN reply(storage, StorageGet(storage, "session"))
        ELSE IF pathname = "/session" /\ method = "POST"
        THEN reply(StoragePut(storage, "session", body), SuccessBody)
        ELSE IF pathname = "/content" /\ method = "POST"
        THEN reply(StoragePut(storage, "content", body), SuccessBody)
        ELSE IF pathname = "/content"
        THEN reply(storage, StorageGet(storage, "content"))
        ELSE IF pathname = "/progress" /\ method = "POST"
        THEN reply(StoragePut(storage, "progress", body), SuccessBody)
        ELSE IF pathname = "/progress"
        THEN reply(storage, StorageGet(storage, "progress"))
        ELSE IF pathname = "/clear" /\ method = "POST"
        THEN reply(StorageDeleteAll(storage), SuccessBody)
        ELSE [storage |-> storage, status |-> 404, json |-> FALSE,
              body |-> Text("Not Found")]

----------------------------------------------------------------------------
(* services/storage-service.js *)

SessionIds == {DEFAULTS_SESSION_ID, "s1"}

\* env.CHAT_STORAGE.idFromName: one durable object per name.
idFromName(name) == <<"ChatStorage", name>>

DurableIds == {idFromName(s) : s \in SessionIds}

\* A stub lookup that ignores the session it is asked for.
_getStubShared(sessionId) == idFromName(DEFAULTS_SESSION_ID)

\* StorageService._getStub
_getStub(sessionId) == idFromName(sessionId)

\* One stub.fetch(...) followed by response.json(): the durable objects
\* afterwards, and the value returned (threw when the body is not JSON, with
\* error the message of what was thrown).
StubFetch(objects, sessionId, pathname, method, data) ==
    LET r == ChatStorage_fetch(objects[_getStub(sessionId)], pathname, method,
                               JSONRoundTrip(data))
    IN  [objects |-> [objects EXCEPT ![_getStub(sessionId)] = r.storage],
         threw |-> ~r.json,
         error |-> IF r.json THEN "ok" ELSE "SyntaxError",
         value |-> r.body,
         reached |-> TRUE]

\* await stub.fetch(...) rejects before the object has served the request:
\* no storage operation took place, and the StorageService method, which
\* catches nothing, rejects with the same error.
StubFetchRejects(objects, message) ==
    [objects |-> objects, threw |-> TRUE, error |-> message,
     value |-> Undefined, reached |-> FALSE]

\* await stub.fetch(...) rejects after the object has served the request:
\* the storage operation of call took place and its response is lost.
StubFetchLost(call, message) ==
    [call EXCEPT !.threw = TRUE, !.error = message, !.value = Undefined]

getSession(objects, sessionId) ==
    StubFetch(objects, sessionId, "/session", "GET", Undefined)

saveSession(objects, sessionId, sessionData) ==
    StubFetch(objects, sessionId, "/session", "POST", sessionData)

getContent(objects, sessionId) ==
    StubFetch(objects, sessionId, "/content", "GET", Undefined)

\* A save of content that starts the session afresh.
saveContentAfterClear(objects, sessionId, content) ==
    StubFetch(StubFetch(objects, sessionId, "/clear", "POST", Undefined).objects,
              sessionId, "/content", "POST", content)

saveContent(objects, sessionId, content) ==
    StubFetch(objects, sessionId, "/content", "POST", content)

getProgress(objects, sessionId) ==
    StubFetch(objects, sessionId, "/progress", "GET", Undefined)

saveProgress(objects, sessionId, progress) ==
    StubFetch(objects, sessionId, "/progress", "POST", progress)

clearSession(objects, sessionId) ==
    StubFetch(objects, sessionId, "/clear", "POST", Undefined)

----------------------------------------------------------------------------
(* services/ai-service.js: what env.AI.run may resolve with *)

ItemArray(n) == Arr([i \in 1..n |-> EmptyObject])

ReplyKeys == {"flashcards", "questions", "results"}

\* response.response already an object; response.response a string (JSON
\* wrapped in prose, prose only, a brace span that is not JSON, and the
\* verdicts of the class check); response.response null.
AIReplies ==
    {Obj([k \in {key} |-> ItemArray(n)]) : key \in ReplyKeys, n \in 1..MaxItems}
        \cup {Obj([k \in {"flashcards"} |-> Str(<<"x">>)]), EmptyObject}
        \cup {Str(<<"x", " ", "{", "F", "[", "{", "}", "]", "}", " ", "x">>),
              Str(<<"x">>),
              Str(<<"{", "x", "}">>),
              Str(<<"V", "A", "L", "I", "D">>),
              Str(<<" ", "v", "a", "l", "i", "d", " ">>),
              Str(<<"I", "N", "V", "A", "L", "I", "D">>)}
        \cup {Null}

\* The replies of the concurrent runs: one well-formed reply for each
\* expected field and one that does not decode.
ConcurrentReplies ==
    {Obj([k \in {key} |-> ItemArray(1)]) : key \in ReplyKeys} \cup {Str(<<"x">>)}

\* Messages of the errors env.AI.run may reject with.
TransportMessages == {"Network connection lost"}

\* String.prototype.toUpperCase over the letters of the model.
UpperOf ==
    [c \in {"v", "a", "l", "i", "d"} |->
        CASE c = "v" -> "V" [] c = "a" -> "A" [] c = "l" -> "L"
          [] c = "i" -> "I" [] c = "d" -> "D"]

ToUpperCase(s) ==
    [i \in 1..Len(s) |-> IF s[i] \in DOMAIN UpperOf THEN UpperOf[s[i]] ELSE s[i]]

StartsWith(s, prefix) ==
    Len(s) >= Len(prefix) /\ SubSeq(s, 1, Len(prefix)) = prefix

JsTrue == [t |-> "true"]
JsFalse == [t |-> "false"]

\* A validateClass that looks for VALID anywhere in the reply.
validateClassResultIncludes(reply) ==
    LET result == Trim(reply.s)
        upper == ToUpperCase(result)
        isValid == \E i \in 1..Len(upper) :
                      StartsWith(SubSeq(upper, i, Len(upper)),
                                 <<"V", "A", "L", "I", "D">>)
    IN  Obj([valid |-> IF isValid THEN JsTrue ELSE JsFalse,
             message |-> IF isValid THEN Text("Valid class!") ELSE Str(result)])

\* AIService.validateClass after the model has answered with a string.
validateClassResult(reply) ==
    LET result == Trim(reply.s)
        isValid == StartsWith(ToUpperCase(result), <<"V", "A", "L", "I", "D">>)
    IN  Obj([valid |-> IF isValid THEN JsTrue ELSE JsFalse,
             message |-> IF isValid THEN Text("Valid class!") ELSE Str(result)])

\* The record gradeTest builds for question q and the answer given to it:
\* {question, correctAnswer, studentAnswer, points: q.points || 10}.
GradingRecord(q, studentAnswer) ==
    Obj([question |-> Field(q, "question"),
         correctAnswer |-> Field(q, "correctAnswer"),
         studentAnswer |-> studentAnswer,
         points |-> OrElse(Field(q, "points"), Num(10))])

\* questions.map((q, i) => ...) in gradeTest: answers[i] is undefined for
\* an index past the end of answers.
questionsAndAnswers(questions, answers) ==
    [i \in 1..Len(questions.items) |->
        GradingRecord(questions.items[i],
                      IF i <= Len(answers.items) THEN answers.items[i]
                      ELSE Undefined)]

GenerateKinds == {"flashcards", "quiz", "test"}

\* The field each operation asks parseAIResponse for.
ExpectedField ==
    [flashcards |-> "flashcards", quiz |-> "questions", test |-> "questions",
     grade |-> "results"]

\* The message of the Error each AIService method throws when decoding fails.
DecodeFailure ==
    [flashcards |-> "Failed to generate flashcards. Please try again.",
     quiz |-> "Failed to generate quiz. Please try again.",
     test |-> "Failed to generate test. Please try again.",
     grade |-> "Failed to grade test. Please try again."]

----------------------------------------------------------------------------
(* State *)

\* Requests the worker is handling at the same time.
Reqs == {"r1", "r2"}

VARIABLES
    objects,        \* state.storage of every ChatStorage durable object
    req,            \* per request: position in its handler, locals, response
    contentFrom     \* history: the operation whose saveContent wrote the
                    \* content an object holds ("none" when it holds none)

vars == <<objects, req, contentFrom>>

IdleReq ==
    [pc |-> "idle", kind |-> "none", sessionId |-> "none",
     className |-> Undefined, topic |-> Undefined, answers |-> Undefined,
     content |-> Undefined, result |-> Undefined,
     status |-> 0, body |-> Undefined]

Init ==
    /\ objects = [d \in DurableIds |-> EmptyStorage]
    /\ req = [r \in Reqs |-> IdleReq]
    /\ contentFrom = [d \in DurableIds |-> "none"]

\* contentFrom after a write of content addressed to sessionId by writer.
WroteContent(after, sessionId, writer) ==
    [d \in DurableIds |->
        IF d = _getStub(sessionId) \/ after[d]["content"] # objects[d]["content"]
        THEN writer
        ELSE contentFrom[d]]

\* The handler returns response: the request keeps only what identifies it.
Respond(r, response) ==
    req' = [req EXCEPT ![r] =
               [IdleReq EXCEPT !.pc = "done",
                               !.kind = req[r].kind,
                               !.sessionId = req[r].sessionId,
                               !.status = response.status,
                               !.body = response.body]]

\* No response: the error thrown is caught by nobody.
Uncaught == [status |-> -1, body |-> Undefined]

\* The same, for a request answered in the step that receives it.
RespondAt(r, fields, response) ==
    req' = [req EXCEPT ![r] =
               [fields EXCEPT !.pc = "done",
                              !.className = Undefined,
                              !.topic = Undefined,
                              !.status = response.status,
                              !.body = response.body]]

----------------------------------------------------------------------------
(* Request bodies *)

Missing == "<undefined>"

ClassNames == {Undefined, Str(<<>>), Str(<<" ">>), Str(<<"M">>), Num(5)}
Topics == {Undefined, Str(<<"T">>)}
\* The topic of the requests of the concurrent runs.
ConcurrentTopics == {Str(<<"T">>)}
SessionIdParams == {Missing} \cup SessionIds
AnswerArrays == {Undefined, Arr(<<>>), Arr(<<Str(<<"a">>)>>)}

\* A default that names another session than DEFAULTS.SESSION_ID.
SessionIdOrOther(param) ==
    IF param = Missing THEN "s1" ELSE param

\* sessionId = DEFAULTS.SESSION_ID in the destructuring of the body
SessionIdOrDefault(param) ==
    IF param = Missing THEN DEFAULTS_SESSION_ID ELSE param

\* topic = '' in the destructuring of the body
TopicOrDefault(topic) == IF topic.t = "undefined" THEN Str(<<>>) ELSE topic

----------------------------------------------------------------------------
(* handlers/generate-flashcards.js, generate-quiz.js, generate-test.js *)

\* request.json() resolves with {className, topic, sessionId}, and the input
\* validation: up to the call of env.AI.run.
ReceiveGenerateOf(r, kind, className, topic, sessionId) ==
    LET fields == [IdleReq EXCEPT !.kind = kind,
                       !.sessionId = SessionIdOrDefault(sessionId),
                       !.className = className,
                       !.topic = TopicOrDefault(topic)]
    IN  /\ req[r].pc = "idle"
        /\ IF validateClassName(className) # "ok"
           THEN RespondAt(r, fields,
                          catchResponse(validateClassName(className)))
           ELSE req' = [req EXCEPT ![r] = [fields EXCEPT !.pc = "ai"]]
        /\ UNCHANGED <<objects, contentFrom>>

\* A generate request arrives.
ReceiveGenerate(r, topics) ==
    \E kind \in GenerateKinds, className \in ClassNames, topic \in topics,
       sessionId \in SessionIdParams :
        ReceiveGenerateOf(r, kind, className, topic, sessionId)

\* A handler that goes on to store the reply whether or not it decodes.
GenerateDecodeEager(r, reply) ==
    /\ req[r].pc = "ai"
    /\ req[r].kind \in GenerateKinds
    /\ req' = [req EXCEPT ![r].pc = "saveSession", ![r].result = reply]
    /\ UNCHANGED <<objects, contentFrom>>

\* A handler that calls the model again when the reply does not decode,
\* holding on to the reply that failed.
GenerateDecodeRetrying(r, reply) ==
    LET parsed == parseAIResponse(reply, ExpectedField[req[r].kind])
    IN  /\ req[r].pc = "ai"
        /\ req[r].kind \in GenerateKinds
        /\ IF parsed.ok
           THEN req' = [req EXCEPT ![r].pc = "saveSession",
                                   ![r].result = parsed.value]
           ELSE req' = [req EXCEPT ![r].result = reply]
        /\ UNCHANGED <<objects, contentFrom>>

\* env.AI.run resolves with reply and AIService decodes it.
GenerateDecodeOf(r, reply) ==
    LET parsed == parseAIResponse(reply, ExpectedField[req[r].kind])
    IN  /\ req[r].pc = "ai"
        /\ req[r].kind \in GenerateKinds
        /\ IF parsed.ok
           THEN req' = [req EXCEPT ![r].pc = "saveSession",
                                   ![r].result = parsed.value]
           ELSE Respond(r, catchResponse(DecodeFailure[req[r].kind]))
        /\ UNCHANGED <<objects, contentFrom>>

\* env.AI.run resolves and AIService decodes the reply.
GenerateDecode(r, replies) == \E reply \in replies : GenerateDecodeOf(r, reply)

\* The metadata a generate request hands to saveSession.
MetadataOf(r) ==
    Obj([className |-> req[r].className, mode |-> Text(req[r].kind),
         topic |-> req[r].topic])

\* The handler after its await of saveSession has settled as call.
GenerateSaveSessionOn(r, call) ==
    /\ req[r].pc = "saveSession"
    /\ objects' = call.objects
    /\ IF call.threw
       THEN Respond(r, catchResponse(call.error))
       ELSE req' = [req EXCEPT ![r].pc = "saveContent"]
    /\ UNCHANGED contentFrom

\* await storageService.saveSession(sessionId, {className, mode, topic})
GenerateSaveSession(r) ==
    GenerateSaveSessionOn(r, saveSession(objects, req[r].sessionId, MetadataOf(r)))

\* A handler that does not wait for saveContent: it answers 200 whatever
\* becomes of the call.
GenerateSaveContentUnawaited(r, call) ==
    /\ req[r].pc = "saveContent"
    /\ objects' = call.objects
    /\ contentFrom' =
           IF call.reached
           THEN WroteContent(objects', req[r].sessionId, req[r].kind)
           ELSE contentFrom
    /\ Respond(r, jsonResponse(req[r].result, 200))

\* The handler after its await of saveContent has settled as call.
GenerateSaveContentOn(r, call) ==
    /\ req[r].pc = "saveContent"
    /\ objects' = call.objects
    /\ contentFrom' =
           IF call.reached
           THEN WroteContent(objects', req[r].sessionId, req[r].kind)
           ELSE contentFrom
    /\ IF call.threw
       THEN Respond(r, catchResponse(call.error))
       ELSE Respond(r, jsonResponse(req[r].result, 200))

\* await storageService.saveContent(sessionId, payload); return jsonResponse
GenerateSaveContent(r) ==
    GenerateSaveContentOn(r, saveContent(objects, req[r].sessionId, req[r].result))

----------------------------------------------------------------------------
(* handlers/grade-test.js *)

\* request.json() resolves with {answers, sessionId}, and validateAnswers:
\* up to the call of getContent.
ReceiveGradeOf(r, answers, sessionId) ==
    LET fields == [IdleReq EXCEPT !.kind = "grade",
                       !.sessionId = SessionIdOrDefault(sessionId),
                       !.answers = answers]
    IN  /\ req[r].pc = "idle"
        /\ IF validateAnswers(answers) # "ok"
           THEN RespondAt(r, [fields EXCEPT !.answers = Undefined],
                          catchResponse(validateAnswers(answers)))
           ELSE req' = [req EXCEPT ![r] = [fields EXCEPT !.pc = "getContent"]]
        /\ UNCHANGED <<objects, contentFrom>>

\* A grade-test request arrives.
ReceiveGrade(r) ==
    \E answers \in AnswerArrays, sessionId \in SessionIdParams :
        ReceiveGradeOf(r, answers, sessionId)

\* A handler that waits until no model call is pending on its session.
GradeGetContentLocked(r, call) ==
    LET content == call.value
    IN  /\ req[r].pc = "getContent"
        /\ \A o \in Reqs \ {r} :
              ~(req[o].pc = "ai" /\ req[o].sessionId = req[r].sessionId)
        /\ objects' = call.objects
        /\ IF call.threw
           THEN Respond(r, catchResponse(call.error))
           ELSE IF Falsy(content) \/ Falsy(Field(content, "questions"))
           THEN Respond(r, errorResponse("No test found for this session", 400, ""))
           ELSE IF Field(content, "questions").t # "array"
           THEN Respond(r, catchResponse("questions.map is not a function"))
           ELSE req' = [req EXCEPT ![r].pc = "ai", ![r].content = content]
        /\ UNCHANGED contentFrom

\* The handler after its await of getContent has settled as call.
GradeGetContentOn(r, call) ==
    LET content == call.value
    IN  /\ req[r].pc = "getContent"
        /\ objects' = call.objects
        /\ IF call.threw
           THEN Respond(r, catchResponse(call.error))
           ELSE IF Falsy(content) \/ Falsy(Field(content, "questions"))
           THEN Respond(r, errorResponse("No test found for this session", 400, ""))
           ELSE IF Field(content, "questions").t # "array"
           THEN Respond(r, catchResponse("questions.map is not a function"))
           ELSE req' = [req EXCEPT ![r].pc = "ai", ![r].content = content]
        /\ UNCHANGED contentFrom

\* const content = await storageService.getContent(sessionId), the test for
\* stored questions, and gradeTest up to its call of env.AI.run.
GradeGetContent(r) ==
    GradeGetContentOn(r, getContent(objects, req[r].sessionId))

\* A handler that records a failed grading in the progress slot.
GradeDecodeStoresFailure(r, reply) ==
    LET parsed == parseAIResponse(reply, ExpectedField["grade"])
    IN  /\ req[r].pc = "ai"
        /\ req[r].kind = "grade"
        /\ IF parsed.ok
           THEN /\ req' = [req EXCEPT ![r].pc = "saveProgress",
                                      ![r].answers = Undefined,
                                      ![r].content = Undefined,
                                      ![r].result = parsed.value]
                /\ UNCHANGED objects
           ELSE /\ Respond(r, catchResponse(DecodeFailure["grade"]))
                /\ objects' = saveProgress(objects, req[r].sessionId,
                                   Obj([error |-> Text(DecodeFailure["grade"])])).objects
        /\ UNCHANGED contentFrom

\* env.AI.run resolves with reply and AIService.gradeTest decodes it.
GradeDecodeOf(r, reply) ==
    LET parsed == parseAIResponse(reply, ExpectedField["grade"])
    IN  /\ req[r].pc = "ai"
        /\ req[r].kind = "grade"
        /\ IF parsed.ok
           THEN req' = [req EXCEPT ![r].pc = "saveProgress",
                                   ![r].answers = Undefined,
                                   ![r].content = Undefined,
                                   ![r].result = parsed.value]
           ELSE Respond(r, catchResponse(DecodeFailure["grade"]))
        /\ UNCHANGED <<objects, contentFrom>>

\* env.AI.run resolves and AIService.gradeTest decodes the reply.
GradeDecode(r, replies) == \E reply \in replies : GradeDecodeOf(r, reply)

\* The handler after its await of saveProgress has settled as call.
GradeSaveProgressOn(r, call) ==
    /\ req[r].pc = "saveProgress"
    /\ objects' = call.objects
    /\ IF call.threw
       THEN Respond(r, catchResponse(call.error))
       ELSE Respond(r, jsonResponse(req[r].result, 200))
    /\ UNCHANGED contentFrom

\* await storageService.saveProgress(sessionId, grading); return jsonResponse
GradeSaveProgress(r) ==
    GradeSaveProgressOn(r, saveProgress(objects, req[r].sessionId, req[r].result))

----------------------------------------------------------------------------
(* handlers/get-session.js *)

\* The catch block of fetch in index.js.
routerCatch(message) == [status |-> 500, body |-> Obj([error |-> Text(message)])]

\* Whether the try block of fetch awaits the promise of the handler it
\* returns: it does not.
handlerAwaited == FALSE

\* fetch in index.js when the promise of the handler it dispatched to rejects
\* with message.  The try block returns that promise without awaiting it
\* (`return handleGetSession(request, env, corsHeaders)`), so the catch block
\* does not run and the promise of fetch rejects as well.
routerOnRejection(message) ==
    IF handlerAwaited THEN routerCatch(message) ELSE Uncaught

\* handleGetSession after its await of getSession has settled as call: the
\* handler has no try block, so an error of the call rejects the promise the
\* handler returned.
HandleGetSessionOn(r, sessionId, call) ==
    LET fields == [IdleReq EXCEPT !.kind = "getSession", !.sessionId = sessionId]
    IN  /\ req[r].pc = "idle"
        /\ objects' = call.objects
        /\ RespondAt(r, fields, IF call.threw THEN routerOnRejection(call.error)
                                ELSE jsonResponse(call.value, 200))
        /\ UNCHANGED contentFrom

\* searchParams.get('sessionId') || DEFAULTS.SESSION_ID, getSession, respond.
HandleGetSession(r) ==
    \E sessionId \in SessionIdParams :
        HandleGetSessionOn(r, SessionIdOrDefault(sessionId),
                           getSession(objects, SessionIdOrDefault(sessionId)))

----------------------------------------------------------------------------
(* handlers/validate-class.js *)

\* The catch block of handleValidateClass.
validateCatchResponse(message) ==
    IF IncludesRequiredOrEmpty(message)
    THEN errorResponse(message, 400, "")
    ELSE errorResponse("Error validating class: " \o message, 500, "")

\* The message of the TypeError response.response.trim() throws when the
\* reply is not a string.
TrimTypeError(reply) ==
    IF reply.t \in {"null", "undefined"}
    THEN "Cannot read properties of " \o reply.t \o " (reading 'trim')"
    ELSE "response.response.trim is not a function"

\* request.json() resolves with {className}, and validateClassName: up to
\* the call of env.AI.run.
ReceiveValidateOf(r, className) ==
    LET fields == [IdleReq EXCEPT !.kind = "validate", !.className = className]
    IN  /\ req[r].pc = "idle"
        /\ IF validateClassName(className) # "ok"
           THEN RespondAt(r, fields,
                          validateCatchResponse(validateClassName(className)))
           ELSE req' = [req EXCEPT ![r] = [fields EXCEPT !.pc = "ai"]]
        /\ UNCHANGED <<objects, contentFrom>>

\* A validate-class request arrives.
ReceiveValidate(r) ==
    \E className \in ClassNames : ReceiveValidateOf(r, className)

\* env.AI.run resolves; AIService.validateClass reads the verdict.
ValidateVerdict(r, replies) ==
    \E reply \in replies :
        /\ req[r].pc = "ai"
        /\ req[r].kind = "validate"
        /\ IF reply.t = "string"
           THEN Respond(r, jsonResponse(validateClassResult(reply), 200))
           ELSE Respond(r, validateCatchResponse(TrimTypeError(reply)))
        /\ UNCHANGED <<objects, contentFrom>>

----------------------------------------------------------------------------
(* env.AI.run rejects *)

AIReject(r) ==
    \E message \in TransportMessages :
        /\ req[r].pc = "ai"
        /\ IF req[r].kind = "validate"
           THEN Respond(r, validateCatchResponse(message))
           ELSE Respond(r, catchResponse(message))
        /\ UNCHANGED <<objects, contentFrom>>

----------------------------------------------------------------------------
(* Storage faults: an await of a StorageService method rejects *)

\* The ways the await of call can fail on a transport error: before the
\* object served the request, or after it did.
StoreFaults(call) ==
    {StubFetchRejects(objects, m) : m \in TransportMessages}
        \cup {StubFetchLost(call, m) : m \in TransportMessages}

GenerateSaveSessionFault(r) ==
    /\ req[r].pc = "saveSession"
    /\ \E call \in StoreFaults(saveSession(objects, req[r].sessionId, MetadataOf(r))) :
          GenerateSaveSessionOn(r, call)

GenerateSaveContentFault(r) ==
    /\ req[r].pc = "saveContent"
    /\ \E call \in StoreFaults(saveContent(objects, req[r].sessionId, req[r].result)) :
          GenerateSaveContentOn(r, call)

GradeGetContentFault(r) ==
    /\ req[r].pc = "getContent"
    /\ \E call \in StoreFaults(getContent(objects, req[r].sessionId)) :
          GradeGetContentOn(r, call)

GradeSaveProgressFault(r) ==
    /\ req[r].pc = "saveProgress"
    /\ \E call \in StoreFaults(saveProgress(objects, req[r].sessionId, req[r].result)) :
          GradeSaveProgressOn(r, call)

HandleGetSessionFault(r) ==
    \E sessionId \in SessionIdParams :
        \E call \in StoreFaults(getSession(objects, SessionIdOrDefault(sessionId))) :
            HandleGetSessionOn(r, SessionIdOrDefault(sessionId), call)

\* A store call of a request in flight fails.
StoreFault(r) ==
    \/ GenerateSaveSessionFault(r)
    \/ GenerateSaveContentFault(r)
    \/ GradeGetContentFault(r)
    \/ GradeSaveProgressFault(r)

----------------------------------------------------------------------------
(* request.json() rejects: the body of the request is not JSON *)

JsonSyntaxError == "Unexpected end of JSON input"

\* The await of request.json() is inside the try block of the handler.
ReceiveMalformed(r) ==
    \E kind \in GenerateKinds \cup {"grade", "validate"} :
        /\ req[r].pc = "idle"
        /\ RespondAt(r, [IdleReq EXCEPT !.kind = kind],
                      IF kind = "validate"
                      THEN validateCatchResponse(JsonSyntaxError)
                      ELSE catchResponse(JsonSyntaxError))
        /\ UNCHANGED <<objects, contentFrom>>

----------------------------------------------------------------------------
(* services/storage-service.js called by any other caller: each call is one
   stub.fetch, hence one step; req[r].result keeps the argument of a save and
   req[r].body the value the call returned. *)

StoreGets == {"getSession", "getContent", "getProgress"}
StoreSaves == {"saveSession", "saveContent", "saveProgress"}

\* The slot each StorageService method addresses.
SlotOf ==
    [getSession |-> "session", saveSession |-> "session",
     getContent |-> "content", saveContent |-> "content",
     getProgress |-> "progress", saveProgress |-> "progress"]

\* Values handed to the save methods.
SavedValues ==
    {Obj([className |-> Str(<<"M">>), mode |-> Text("quiz"), topic |-> Str(<<>>)]),
     Obj([k \in {"questions"} |-> ItemArray(1)]),
     Obj([k \in {"results"} |-> ItemArray(MaxItems)])}

StoreCall(objs, method, sessionId, data) ==
    CASE method = "getSession" -> getSession(objs, sessionId)
      [] method = "getContent" -> getContent(objs, sessionId)
      [] method = "getProgress" -> getProgress(objs, sessionId)
      [] method = "saveSession" -> saveSession(objs, sessionId, data)
      [] method = "saveContent" -> saveContent(objs, sessionId, data)
      [] method = "saveProgress" -> saveProgress(objs, sessionId, data)
      [] method = "clearSession" -> clearSession(objs, sessionId)

StoreStep(r, method, sessionId, data) ==
    LET call == StoreCall(objects, method, sessionId, data)
        fields == [IdleReq EXCEPT !.kind = method, !.sessionId = sessionId,
                                  !.result = data]
    IN  /\ req[r].pc = "idle"
        /\ objects' = call.objects
        /\ RespondAt(r, fields, IF call.threw THEN Uncaught
                                ELSE [status |-> 0, body |-> call.value])
        /\ contentFrom' =
               IF method = "saveContent"
               THEN WroteContent(objects', sessionId, "direct")
               ELSE [d \in DurableIds |->
                        IF objects'[d]["content"] = Undefined
                        THEN "none" ELSE contentFrom[d]]

StoreGet(r) ==
    \E method \in StoreGets, sessionId \in SessionIds :
        StoreStep(r, method, sessionId, Undefined)

StoreSave(r) ==
    \E method \in StoreSaves, sessionId \in SessionIds, data \in SavedValues :
        StoreStep(r, method, sessionId, data)

StoreClear(r) ==
    \E sessionId \in SessionIds :
        StoreStep(r, "clearSession", sessionId, Undefined)

\* Any request to the durable object of a session: the paths of the store,
\* those the chat worker asks for and one nobody serves, under every method.
\* req[r].answers keeps the path, req[r].content the method, and status and
\* body the response.
StoreFetch(r) ==
    \E sessionId \in SessionIds,
       pathname \in {"/session", "/content", "/progress", "/clear",
                     "/history", "/add", "/"},
       method \in {"GET", "POST", "PUT", "DELETE"},
       data \in SavedValues :
        LET served == ChatStorage_fetch(objects[_getStub(sessionId)], pathname,
                                        method, JSONRoundTrip(data))
            fields == [IdleReq EXCEPT !.kind = "fetch", !.sessionId = sessionId,
                                      !.answers = Text(pathname),
                                      !.content = Text(method)]
        IN  /\ req[r].pc = "idle"
            /\ objects' = [objects EXCEPT ![_getStub(sessionId)] = served.storage]
            /\ RespondAt(r, fields, [status |-> served.status, body |-> served.body])
            /\ contentFrom' =
                   IF pathname = "/content" /\ method = "POST"
                   THEN WroteContent(objects', sessionId, "direct")
                   ELSE [d \in DurableIds |->
                            IF objects'[d]["content"] = Undefined
                            THEN "none" ELSE contentFrom[d]]

----------------------------------------------------------------------------
(* The chat worker (the entry point that imports ./chatStorage.js and serves
   /api/chat and /api/history) *)

\* One entry of a message list.
Message(role, content) == Obj([role |-> Text(role), content |-> content])

\* A message list that carries only the last two entries of the history.
chatMessagesRecent(history, message) ==
    Arr(<<Message("system",
                  Text("You are a helpful AI assistant. Be concise, friendly, and informative."))>>
            \o (IF Len(history.items) <= 2 THEN history.items
                ELSE SubSeq(history.items, Len(history.items) - 1,
                            Len(history.items)))
            \o <<Message("user", message)>>)

\* The messages array of handleChat over the array history: the system
\* message, ...history, the user message.
chatMessages(history, message) ==
    Arr(<<Message("system",
                  Text("You are a helpful AI assistant. Be concise, friendly, and informative."))>>
            \o history.items
            \o <<Message("user", message)>>)

\* stub.fetch('http://internal/history').then(r => r.json())
getHistory(objs, sessionId) ==
    StubFetch(objs, sessionId, "/history", "GET", Undefined)

\* request.json() resolves with {message, sessionId} and the test of message:
\* up to the fetch of the history.
ReceiveChat(r) ==
    \E message \in {Undefined, Str(<<>>), Str(<<"h">>), Str(<<"i">>)},
       sessionId \in SessionIdParams :
        LET fields == [IdleReq EXCEPT !.kind = "chat",
                           !.sessionId = SessionIdOrDefault(sessionId),
                           !.content = message]
        IN  /\ req[r].pc = "idle"
            /\ IF Falsy(message)
               THEN RespondAt(r, fields,
                              [status |-> 400,
                               body |-> Obj([error |-> Text("Message is required")])])
               ELSE req' = [req EXCEPT ![r] = [fields EXCEPT !.pc = "getHistory"]]
            /\ UNCHANGED <<objects, contentFrom>>

\* handleChat after its fetch of the history has settled (call).  The
\* handler has no try block, and fetch returns its promise without awaiting
\* it: an error of r.json(), or of the spread of a history that is not an
\* array, rejects the request.  Otherwise the model is called with the
\* message list and resolves with reply, the pair is posted to /add (the
\* response of which is not read) and the request is answered.
HandleChat(r, replies) ==
    /\ req[r].pc = "getHistory"
    /\ LET call == getHistory(objects, req[r].sessionId) IN
       IF call.threw \/ call.value.t # "array"
       THEN /\ objects' = call.objects
            /\ Respond(r, routerOnRejection(IF call.threw THEN call.error
                                            ELSE "history is not iterable"))
       ELSE \E reply \in replies :
               LET messages == chatMessages(call.value, req[r].content)
                   assistantMessage == reply
                   add == StubFetch(call.objects, req[r].sessionId, "/add", "POST",
                                    Obj([userMessage |-> req[r].content,
                                         assistantMessage |-> assistantMessage]))
               IN  /\ messages.t = "array"
                   /\ objects' = add.objects
                   /\ Respond(r, jsonResponse(
                                    Obj([response |-> assistantMessage,
                                         sessionId |-> Text(req[r].sessionId)]),
                                    200))
    /\ UNCHANGED contentFrom

\* handleGetHistory: searchParams.get('sessionId') || 'default', the fetch of
\* the history, respond.
HandleGetHistory(r) ==
    \E sessionId \in SessionIdParams :
        LET call == getHistory(objects, SessionIdOrDefault(sessionId))
            fields == [IdleReq EXCEPT !.kind = "getHistory",
                           !.sessionId = SessionIdOrDefault(sessionId)]
        IN  /\ req[r].pc = "idle"
            /\ objects' = call.objects
            /\ RespondAt(r, fields,
                         IF call.threw THEN routerOnRejection(call.error)
                         ELSE jsonResponse(Obj([history |-> call.value]), 200))
            /\ UNCHANGED contentFrom

----------------------------------------------------------------------------
(* Specifications *)

\* The response has been delivered: the slot is free for the next request.
Retire(r) ==
    /\ req[r].pc = "done"
    /\ req' = [req EXCEPT ![r] = IdleReq]
    /\ UNCHANGED <<objects, contentFrom>>

\* A request arrives at the worker.
Receive(r, topics) ==
    \/ ReceiveGenerate(r, topics)
    \/ ReceiveGrade(r)
    \/ HandleGetSession(r)
    \/ StoreClear(r)

\* A request in flight continues after one of its awaits.
Continue(r, replies) ==
    \/ GenerateDecode(r, replies)
    \/ GenerateSaveSession(r)
    \/ GenerateSaveContent(r)
    \/ GradeGetContent(r)
    \/ GradeDecode(r, replies)
    \/ GradeSaveProgress(r)
    \/ AIReject(r)
    \/ Retire(r)

\* validate-class requests: they carry no session and touch no storage.
Validate(r, replies) ==
    \/ ReceiveValidate(r)
    \/ ValidateVerdict(r, replies)

\* The worker: requests are handled concurrently, interleaving at awaits.
Next ==
    \E r \in Reqs :
        \/ Receive(r, ConcurrentTopics)
        \/ Continue(r, ConcurrentReplies)
        \/ Validate(r, ConcurrentReplies)

Spec == Init /\ [][Next]_vars

\* No request waits for another one.
Quiet == \A r \in Reqs : req[r].pc = "idle"

\* The worker with its requests issued one after another.
NextSeq ==
    \E r \in Reqs :
        \/ Quiet /\ Receive(r, Topics)
        \/ Continue(r, AIReplies)
        \/ Quiet /\ ReceiveValidate(r)
        \/ ValidateVerdict(r, AIReplies)

SpecSeq == Init /\ [][NextSeq]_vars

\* The same, for a client that never asks for a class to be validated.
NextUnvalidated ==
    \E r \in Reqs : (Quiet /\ Receive(r, Topics)) \/ Continue(r, AIReplies)

SpecUnvalidated == Init /\ [][NextUnvalidated]_vars

\* The replies of the model in the runs with faults, one with a field
\* beside the expected one among them: parseAIResponse returns the whole
\* object, so the field is stored with it.
FaultyReplies ==
    AIReplies \cup {Obj([flashcards |-> ItemArray(1), questions |-> Str(<<"x">>)])}

\* The worker with its requests issued one after another, with request
\* bodies that are not JSON and store calls that fail.
NextFaulty ==
    \E r \in Reqs :
        \/ Quiet /\ Receive(r, Topics)
        \/ Quiet /\ ReceiveMalformed(r)
        \/ Quiet /\ HandleGetSessionFault(r)
        \/ Continue(r, FaultyReplies)
        \/ StoreFault(r)
        \/ Quiet /\ ReceiveValidate(r)
        \/ ValidateVerdict(r, AIReplies)

SpecFaulty == Init /\ [][NextFaulty]_vars

\* The concurrent worker in which every await of request r2 settles, while
\* those of r1 may stay pending for ever: a model call of r1 that never returns
\* is r1 staying at its call of env.AI.run.
SpecHung ==
    Spec /\ WF_vars(Continue("r2", ConcurrentReplies)
                        \/ ValidateVerdict("r2", ConcurrentReplies))

\* The session store alone, under any sequence of StorageService calls.
NextStore == \E r \in Reqs : StoreGet(r) \/ StoreSave(r) \/ StoreClear(r) \/ Retire(r)

SpecStore == Init /\ [][NextStore]_vars

\* The chat worker over a store that receives requests of any path and
\* method.
NextChat ==
    \E r \in Reqs :
        \/ ReceiveChat(r)
        \/ HandleChat(r, AIReplies)
        \/ HandleGetHistory(r)
        \/ Quiet /\ StoreFetch(r)
        \/ Retire(r)

SpecChat == Init /\ [][NextChat]_vars

----------------------------------------------------------------------------
(* Functions of the source applied on their own, once by each caller: the slot
   of the caller keeps the name of the function (kind), its arguments (result,
   content) and the value it returned (body). *)

Evaluated(r, fn, argument, other, returned) ==
    /\ req[r].pc = "idle"
    /\ req' = [req EXCEPT ![r] =
                  [IdleReq EXCEPT !.pc = "done", !.kind = fn,
                                  !.result = argument, !.content = other,
                                  !.body = returned]]
    /\ UNCHANGED <<objects, contentFrom>>

\* All sequences over values of length at most n.
RECURSIVE SeqsUpTo(_, _)
SeqsUpTo(values, n) ==
    IF n = 0 THEN {<<>>}
    ELSE SeqsUpTo(values, n - 1)
             \cup {Append(q, v) : q \in SeqsUpTo(values, n - 1), v \in values}

\* AIService.gradeTest builds its grading input, from stored test questions
\* with a points value (0 among them) or without and from the answers.
EvaluateGradingInput(r) ==
    LET Questions ==
            {Obj([question |-> Str(<<"q">>)])}
                \cup {Obj([question |-> Str(<<"q">>), points |-> Num(n)]) :
                         n \in {0, 5}}
    IN  \E questions \in {Arr(q) : q \in SeqsUpTo(Questions, MaxItems)},
           answers \in {Arr(a) : a \in SeqsUpTo({Str(<<"a">>)}, MaxItems)} :
            Evaluated(r, "questionsAndAnswers", questions, answers,
                      Arr(questionsAndAnswers(questions, answers)))

\* Replies handed to parseAIResponse on its own: objects with every choice
\* of value for two fields, values that are no object, and strings.
DecodeKeys == {"flashcards", "summary"}

DecodeReplies ==
    {Obj(f) : f \in UNION {[K -> {Arr(<<>>), EmptyObject, Null, Str(<<"x">>), Num(1)}] :
                              K \in SUBSET DecodeKeys}}
        \cup {Null, Undefined, Num(1), JsTrue, Arr(<<>>)}
        \cup
    {Str(<<"x", " ", "{", "F", "[", "{", "}", "]", "}", " ", "x">>),
     Str(<<" ", "{", "F", "[", "]", "}", " ">>),
     Str(<<"x", "{", "}", "x">>),
     Str(<<"{", "}", "x", "{", "}">>),
     Str(<<"{", "F", "[", "]", "}", "{", "F", "[", "]", "}">>),
     Str(<<"{", "x", "}">>),
     Str(<<"{", "F", "[", "{", "]", "}">>),
     Str(<<"x">>),
     Str(<<>>),
     Str(<<"{", "x">>),
     Str(<<"x", "}">>),
     Str(<<"}", "x", "{">>)}

\* The expected structures: up to two entries, for distinct keys, each of
\* kind array or object.
ExpectedStructures ==
    LET entries == DecodeKeys \X {"array", "object"}
    IN  {<<>>}
            \cup {<<entry>> : entry \in entries}
            \cup {structure \in entries \X entries :
                     structure[1][1] # structure[2][1]}

\* parseAIResponse(response, expectedStructure) on its own.
EvaluateParseAIResponse(r) ==
    \E reply \in DecodeReplies, expectedStructure \in ExpectedStructures :
        Evaluated(r, "parseAIResponse", reply,
                  [t |-> "structure", entries |-> expectedStructure],
                  parseAIResponseWith(reply, expectedStructure))

\* What a generate or grade-test handler of src/handlers answers once
\* env.AI.run has resolved with reply, every store call succeeding: the
\* decoded payload, or the catch block on the Error of the AIService.
DecodeResponse(kind, reply) ==
    LET parsed == parseAIResponse(reply, ExpectedField[kind])
    IN  IF parsed.ok THEN jsonResponse(parsed.value, 200)
        ELSE catchResponse(DecodeFailure[kind])

\* The try block of handleGenerateFlashcards in index.js, which decodes the
\* reply in place: the message of the Error thrown, or "ok".
IndexDecodeFlashcards(reply) ==
    LET structure(flashcards) ==
            IF Falsy(Field(flashcards, "flashcards"))
                  \/ Field(flashcards, "flashcards").t # "array"
            THEN "Invalid flashcard structure"
            ELSE "ok"
    IN  IF reply.t \in {"object", "array"}
        THEN structure(reply)
        ELSE IF reply.t = "string"
        THEN IF JsonMatch(Trim(reply.s)) = <<>>
             THEN "No JSON found in response"
             ELSE IF ~JSONParseOk(JsonMatch(Trim(reply.s)))
             THEN "SyntaxError"
             ELSE structure(JSONParse(JsonMatch(Trim(reply.s))))
        ELSE "Unexpected response format"

\* What handleGenerateFlashcards of index.js answers once env.AI.run has
\* resolved with reply: its catch block puts error.message into details.
IndexFlashcardsResponse(reply) ==
    IF IndexDecodeFlashcards(reply) = "ok"
    THEN jsonResponse(IF reply.t = "string"
                      THEN JSONParse(JsonMatch(Trim(reply.s))) ELSE reply, 200)
    ELSE errorResponse(DecodeFailure["flashcards"], 500,
                       IndexDecodeFlashcards(reply))

\* The replies the decoding handlers are given.
HandlerReplies == AIReplies \cup DecodeReplies

EvaluateDecodeResponse(r) ==
    \E kind \in DOMAIN ExpectedField, reply \in HandlerReplies :
        Evaluated(r, "handlers", reply, Str(<<kind>>), DecodeResponse(kind, reply))

EvaluateIndexFlashcardsResponse(r) ==
    \E reply \in HandlerReplies :
        Evaluated(r, "index", reply, Str(<<"flashcards">>),
                  IndexFlashcardsResponse(reply))

NextDecodeResponse ==
    \E r \in Reqs :
        EvaluateDecodeResponse(r) \/ EvaluateIndexFlashcardsResponse(r)

SpecDecodeResponse == Init /\ [][NextDecodeResponse]_vars

\* The bounds every generate handler passes to validateCount.
COUNT_MIN == 1
COUNT_MAX == 50

\* Values a request body can carry as count: integers around both bounds,
\* numbers with a decimal place, strings, and values that are no number.
Counts ==
    {Num(n) : n \in (COUNT_MIN - 3)..(COUNT_MAX + 3)}
        \cup {Frac(0, 5), Frac(2, 5), Frac(50, 5), Frac(51, 5)}
        \cup {Str(<<"7">>), Str(<<" ", "7">>), Str(<<"1", "2", "a", "b", "c">>),
              Str(<<"a", "b", "c">>), Str(<<>>), Str(<<"-", "3">>),
              Str(<<"9", "9">>)}
        \cup {Null, JsTrue, Obj(<<>>), Arr(<<>>)}

\* validateCount(count, 1, 50) on its own.
EvaluateValidateCount(r) ==
    \E count \in Counts \cup {Undefined} :
        Evaluated(r, "validateCount", count, Undefined,
                  validateCount(count, COUNT_MIN, COUNT_MAX))

\* DEFAULTS: the count each generate handler uses when the body has none.
FLASHCARD_COUNT == 10
QUIZ_COUNT == 5
TEST_COUNT == 10

DefaultCount ==
    [flashcards |-> FLASHCARD_COUNT, quiz |-> QUIZ_COUNT, test |-> TEST_COUNT]

\* validatedCount of a generate handler: the destructuring default replaces
\* a count that is undefined, and only that, before validateCount is applied.
validatedCount(kind, count) ==
    validateCount(IF count = Undefined THEN Num(DefaultCount[kind]) ELSE count,
                  COUNT_MIN, COUNT_MAX)

\* The count a generate handler of the given kind passes to the AI service.
EvaluateValidatedCount(r) ==
    \E kind \in GenerateKinds, count \in Counts \cup {Undefined} :
        Evaluated(r, "validatedCount", count, Str(<<kind>>),
                  validatedCount(kind, count))

\* AIService.validateClass on a reply of the model that is a string: a
\* verdict in any mix of cases, alone or with text before or after it, with
\* and without spaces around it.
EvaluateValidateClass(r) ==
    LET pads == {<<>>, <<" ">>, <<" ", " ">>}
        words == {<<"V", "A", "L", "I", "D">>, <<"v", "a", "l", "i", "d">>,
                  <<"V", "a", "l", "i", "d">>, <<"v", "A", "l", "I", "d">>,
                  <<"V", "A", "L", "I", "D", ":", "1">>,
                  <<"v", "a", "l", "i", "d", "a">>,
                  <<"V", "A", "L", "I">>, <<"D", "I", "L", "A", "V">>,
                  <<"I", "N", "V", "A", "L", "I", "D">>,
                  <<"I", "N", "V", "A", "L", "I", "D", ":", " ", "1">>,
                  <<"a", "V", "A", "L", "I", "D">>,
                  <<"V", "A", " ", "L", "I", "D">>, <<":">>, <<>>}
    IN  \E before \in pads, word \in words, after \in pads :
            Evaluated(r, "validateClass", Str(before \o word \o after), Undefined,
                      validateClassResult(Str(before \o word \o after)))

\* The messages array of handleChat over histories of up to three entries.
EvaluateChatMessages(r) ==
    \E history \in SeqsUpTo({Message("user", Str(<<"h">>)),
                              Message("assistant", Str(<<"a">>)),
                              Message("user", Str(<<"i">>))}, 3),
       message \in {Str(<<"h">>), Str(<<"i">>)} :
        Evaluated(r, "chatMessages", Arr(history), message,
                  chatMessages(Arr(history), message))

\* handleGenerateFlashcards and handleGradeTest of handlers/*.js run from
\* request to response on the store objs with no other request in between
\* and no fault: the status answered and the store afterwards.
HandlersOutcome(kind, objs, className, answers, reply) ==
    LET sid == DEFAULTS_SESSION_ID
        parsed == parseAIResponse(reply, ExpectedField[kind])
        content == getContent(objs, sid).value
        ends(response, after) == [status |-> response.status, objects |-> after]
    IN  IF kind = "flashcards"
        THEN IF validateClassName(className) # "ok"
             THEN ends(catchResponse(validateClassName(className)), objs)
             ELSE IF ~parsed.ok
             THEN ends(catchResponse(DecodeFailure[kind]), objs)
             ELSE ends(jsonResponse(parsed.value, 200),
                       saveContent(
                           saveSession(objs, sid,
                               Obj([className |-> className, mode |-> Text(kind),
                                    topic |-> Str(<<>>)])).objects,
                           sid, parsed.value).objects)
        ELSE IF validateAnswers(answers) # "ok"
             THEN ends(catchResponse(validateAnswers(answers)), objs)
             ELSE IF Falsy(content) \/ Falsy(Field(content, "questions"))
             THEN ends(errorResponse("No test found for this session", 400, ""), objs)
             ELSE IF Field(content, "questions").t # "array"
             THEN ends(catchResponse("questions.map is not a function"), objs)
             ELSE IF ~parsed.ok
             THEN ends(catchResponse(DecodeFailure[kind]), objs)
             ELSE ends(jsonResponse(parsed.value, 200),
                       saveProgress(objs, sid, parsed.value).objects)

\* The same of the handleGenerateFlashcards and handleGradeTest that
\* index.js defines for itself: they test className and answers in place,
\* decode the reply in a try block of their own and call stub.fetch directly.
IndexOutcome(kind, objs, className, answers, reply) ==
    LET sid == DEFAULTS_SESSION_ID
        key == ExpectedField[kind]
        span == JsonMatch(Trim(reply.s))
        decoded == IF reply.t \in {"object", "array"} THEN reply
                   ELSE IF reply.t = "string" /\ span # <<>> /\ JSONParseOk(span)
                   THEN JSONParse(span)
                   ELSE Undefined
        decodes == /\ decoded.t # "undefined"
                   /\ ~Falsy(Field(decoded, key))
                   /\ Field(decoded, key).t = "array"
        content == StubFetch(objs, sid, "/content", "GET", Undefined).value
        post(o, pathname, data) == StubFetch(o, sid, pathname, "POST", data).objects
        ends(response, after) == [status |-> response.status, objects |-> after]
    IN  IF kind = "flashcards"
        THEN IF Falsy(className)
             THEN ends(errorResponse("Class name is required", 400, ""), objs)
             ELSE IF ~decodes
             THEN ends(errorResponse(DecodeFailure[kind], 500, "error.message"), objs)
             ELSE ends(jsonResponse(decoded, 200),
                       post(post(objs, "/session",
                                 Obj([className |-> className,
                                      mode |-> Text(kind)])),
                            "/content", decoded))
        ELSE IF Falsy(answers) \/ answers.t # "array"
             THEN ends(errorResponse("Answers array is required", 400, ""), objs)
             ELSE IF Falsy(content) \/ Falsy(Field(content, "questions"))
             THEN ends(errorResponse("No test found for this session", 400, ""), objs)
             ELSE IF Field(content, "questions").t # "array"
             THEN ends(routerOnRejection("questions.map is not a function"), objs)
             ELSE IF ~decodes
             THEN ends(errorResponse(DecodeFailure[kind], 500, "error.message"), objs)
             ELSE ends(jsonResponse(decoded, 200), post(objs, "/progress", decoded))

\* Both handlers of a route given the same request body, the same store and
\* the same reply of the model.
EvaluateOutcomes(r) ==
    \E kind \in {"flashcards", "grade"},
       className \in ClassNames,
       answers \in AnswerArrays,
       stored \in {Undefined, Obj([k \in {"questions"} |-> ItemArray(1)]),
                   Obj([k \in {"flashcards"} |-> ItemArray(1)]),
                   Obj([k \in {"questions"} |-> Str(<<"x">>)])},
       reply \in AIReplies :
        LET objs == [d \in DurableIds |->
                        IF d = idFromName(DEFAULTS_SESSION_ID) /\ stored.t # "undefined"
                        THEN StoragePut(EmptyStorage, "content", stored)
                        ELSE EmptyStorage]
        IN  Evaluated(r, "outcomes",
                      [kind |-> kind, className |-> className, answers |-> answers,
                       stored |-> stored, reply |-> reply],
                      IndexOutcome(kind, objs, className, answers, reply),
                      HandlersOutcome(kind, objs, className, answers, reply))

\* One function of the source applied to one choice of arguments.
NextApplied ==
    \E r \in Reqs :
        \/ Quiet /\ EvaluateGradingInput(r)
        \/ Quiet /\ EvaluateParseAIResponse(r)
        \/ Quiet /\ EvaluateValidateCount(r)
        \/ Quiet /\ EvaluateValidatedCount(r)
        \/ Quiet /\ EvaluateValidateClass(r)
        \/ Quiet /\ EvaluateChatMessages(r)
        \/ Quiet /\ EvaluateOutcomes(r)

SpecApplied == Init /\ [][NextApplied]_vars

----------------------------------------------------------------------------
(* Properties *)

\* Request r takes the step that leads from position from to position to.
Moves(r, from, to) == req[r].pc = from /\ req'[r].pc = to

\* C1: when a generate request completes with 200 and no other request ran
\* meanwhile, GET /api/session for its session returns {className, mode,
\* topic} of the request.
C1_MetadataStored ==
    [][\A r \in Reqs :
          (Moves(r, "saveContent", "done") /\ req'[r].status = 200)
              => jsonResponse(getSession(objects', req[r].sessionId).value, 200).body
                     = MetadataOf(r)]_vars

\* C2: a get of a slot that holds nothing, as every slot does before the
\* first write, returns the slot's default ({} for metadata and progress,
\* null for content) and does not throw.
C2_DefaultBeforeWrite ==
    [][\A r \in Reqs :
          (/\ Moves(r, "idle", "done")
           /\ req'[r].kind \in StoreGets
           /\ objects[idFromName(req'[r].sessionId)][SlotOf[req'[r].kind]] = Undefined)
              => /\ req'[r].status = 0
                 /\ req'[r].body =
                        (IF req'[r].kind = "getContent" THEN Null ELSE EmptyObject)]_vars

C2_Witness ==
    \E r \in Reqs :
        /\ req[r].pc = "done"
        /\ req[r].kind = "getContent"
        /\ req[r].body = Null
        /\ \A d \in DurableIds : objects[d] = EmptyStorage

\* The get method of the slot a save method writes.
GetterOf ==
    [saveSession |-> "getSession", saveContent |-> "getContent",
     saveProgress |-> "getProgress"]

\* C3: after a save of X to a slot of a session, a get of that slot returns X,
\* whatever the slot held before.
C3_PutThenGet ==
    [][\A r \in Reqs :
          (Moves(r, "idle", "done") /\ req'[r].kind \in StoreSaves)
              => StoreCall(objects', GetterOf[req'[r].kind], req'[r].sessionId,
                           Undefined).value = req'[r].result]_vars

\* C4: a step changes the storage of a durable object only if it is a step of
\* a request addressed to the session that object is named after, and what a
\* request reads is what the object of its own session holds.
C4_SessionIsolation ==
    [][/\ \A d \in DurableIds :
              objects'[d] # objects[d]
                  => \E r \in Reqs :
                        req'[r] # req[r] /\ idFromName(req'[r].sessionId) = d
       /\ \A r \in Reqs :
              /\ Moves(r, "getContent", "ai")
                    => req'[r].content =
                           objects[idFromName(req[r].sessionId)]["content"]
              /\ (Moves(r, "idle", "done") /\ req'[r].kind = "getSession")
                    => req'[r].body =
                           OrElse(objects[idFromName(req'[r].sessionId)]["session"],
                                  EmptyObject)]_vars

C4_Witness ==
    /\ objects[idFromName("s1")]["content"] # Undefined
    /\ objects[idFromName("s1")]["progress"] # Undefined
    /\ objects[idFromName(DEFAULTS_SESSION_ID)] = EmptyStorage
    /\ \E r \in Reqs :
          /\ req[r].pc = "ai"
          /\ req[r].kind = "grade"
          /\ req[r].sessionId = "s1"

\* C5: a clearSession leaves every slot of its session reading as its default,
\* and no step removes one slot of an object while leaving another one set.
C5_ClearIsAtomic ==
    [][/\ \A r \in Reqs :
              (Moves(r, "idle", "done") /\ req'[r].kind = "clearSession")
                  => /\ getSession(objects', req'[r].sessionId).value = EmptyObject
                     /\ getContent(objects', req'[r].sessionId).value = Null
                     /\ getProgress(objects', req'[r].sessionId).value = EmptyObject
       /\ \A d \in DurableIds :
              (\E k \in StorageKeys :
                   objects[d][k] # Undefined /\ objects'[d][k] = Undefined)
                  => objects'[d] = EmptyStorage]_vars

C5_Witness ==
    \E r1, r2 \in Reqs :
        /\ req[r1].pc = "done"
        /\ req[r1].kind = "clearSession"
        /\ req[r2].pc = "done"
        /\ req[r2].kind = "grade"
        /\ req[r2].status = 200
        /\ req[r2].sessionId = req[r1].sessionId
        /\ objects[idFromName(req[r1].sessionId)] = EmptyStorage

\* The values the generate and grade handlers of the concurrent runs put:
\* the decoded replies, and the metadata of the requests.
Decoded(key) ==
    {parseAIResponse(reply, key).value :
        reply \in {x \in ConcurrentReplies : parseAIResponse(x, key).ok}}

PutContents == Decoded("flashcards") \cup Decoded("questions")

PutProgress == Decoded("results")

PutMetadata ==
    {Obj([className |-> c, mode |-> Text(k), topic |-> TopicOrDefault(t)]) :
        c \in {x \in ClassNames : validateClassName(x) = "ok"},
        k \in GenerateKinds, t \in ConcurrentTopics}

\* C6: under every interleaving of requests, each slot holds nothing or the
\* whole value of one put to that slot, and so does every value a request has
\* read from a slot: never a mixture of two puts.
C6_NoTornValue ==
    /\ \A d \in DurableIds :
          /\ objects[d]["session"] \in {Undefined} \cup PutMetadata
          /\ objects[d]["content"] \in {Undefined} \cup PutContents
          /\ objects[d]["progress"] \in {Undefined} \cup PutProgress
    /\ \A r \in Reqs :
          /\ (req[r].pc = "ai" /\ req[r].kind = "grade")
                => req[r].content \in PutContents
          /\ (req[r].pc = "done" /\ req[r].kind = "getSession")
                => req[r].body \in {EmptyObject} \cup PutMetadata

C6_Witness ==
    \E r1, r2 \in Reqs :
        /\ req[r1].pc = "saveContent"
        /\ req[r1].kind = "flashcards"
        /\ req[r2].pc = "saveContent"
        /\ req[r2].kind = "quiz"
        /\ req[r2].sessionId = req[r1].sessionId
        /\ HasField(objects[idFromName(req[r1].sessionId)]["content"], "questions")
        /\ objects[idFromName(req[r1].sessionId)]["progress"] # Undefined

\* No put ever reaches the session key: the POST branch of /session is
\* shadowed by the GET branch.
SessionNeverStored ==
    \A d \in DurableIds : objects[d]["session"] = Undefined

\* C7: when metadata.mode and content are both set, the content has the
\* field of that mode.  SessionNeverStored makes the premise unreachable, so
\* this holds of the code without saying anything about it.
C7_ModeMatchesContent ==
    \A d \in DurableIds :
        (objects[d]["session"] # Undefined /\ objects[d]["content"] # Undefined)
            => HasField(objects[d]["content"],
                        IF Field(objects[d]["session"], "mode") = Text("flashcards")
                        THEN "flashcards" ELSE "questions")

\* C8: when the content of a session was written by generateTest and its
\* progress slot holds a grading, the grading has one result per question.
C8_OneResultPerQuestion ==
    \A d \in DurableIds :
        (contentFrom[d] = "test" /\ objects[d]["progress"] # Undefined)
            => Len(Field(objects[d]["progress"], "results").items)
                   = Len(Field(objects[d]["content"], "questions").items)

\* C9: a grade-test request writes progress only when the content of its
\* session was written by generateTest.
C9_ProgressOnlyForTests ==
    [][\A r \in Reqs :
          Moves(r, "saveProgress", "done")
              => contentFrom[idFromName(req[r].sessionId)] = "test"]_vars

\* C10: with requests issued one after another and validate-class never
\* called, a generate request that has answered 200 leaves the content slot
\* of its session equal to the payload it returned.
C10_LastGenerateWins ==
    \A r \in Reqs :
        (req[r].pc = "done" /\ req[r].kind \in GenerateKinds /\ req[r].status = 200)
            => getContent(objects, req[r].sessionId).value = req[r].body

C10_Witness ==
    \E r \in Reqs :
        /\ req[r].pc = "done"
        /\ req[r].kind = "flashcards"
        /\ req[r].status = 200
        /\ objects[idFromName(req[r].sessionId)]["progress"] # Undefined

\* The positions of a request that has been received and not yet answered.
InFlight == {"ai", "getContent", "saveSession", "saveContent", "saveProgress"}

\* C11: while the model call of r1 is pending, whether or not it ever returns,
\* a request r2 in flight on any session still gets its response: nothing r1
\* holds while it waits keeps a step of r2 from being taken.
C11_HungCallBlocksOnlyItself ==
    (req["r1"].pc = "ai" /\ req["r2"].pc \in InFlight) ~> (req["r2"].pc = "done")

C11_Witness ==
    /\ req["r1"].pc = "ai"
    /\ req["r1"].kind = "grade"
    /\ req["r2"].pc = "done"
    /\ req["r2"].kind = "grade"
    /\ req["r2"].status = 200
    /\ req["r2"].sessionId = req["r1"].sessionId

\* The kinds of the requests that call the model for a payload to store.
StoringKinds == GenerateKinds \cup {"grade"}

\* C12: when the reply of the model does not decode, the generate or
\* grade-test request answers 500 in that step, the step changes no slot, and
\* no earlier step of the request (receipt, the read of the stored test) has
\* changed one either.
C12_DecodeFailureWritesNothing ==
    [][\A r \in Reqs :
          /\ (/\ req[r].pc = "ai"
              /\ req'[r] # req[r]
              /\ req[r].kind \in StoringKinds
              /\ \E reply \in FaultyReplies :
                    /\ ~parseAIResponse(reply, ExpectedField[req[r].kind]).ok
                    /\ IF req[r].kind = "grade" THEN GradeDecodeOf(r, reply)
                       ELSE GenerateDecodeOf(r, reply))
                 => /\ req'[r].pc = "done"
                    /\ req'[r].status = 500
                    /\ objects' = objects
          /\ (/\ req[r].pc \in {"idle", "getContent"}
              /\ req'[r] # req[r]
              /\ req'[r].kind \in StoringKinds)
                 => objects' = objects]_vars

C12_Witness ==
    \E r \in Reqs :
        /\ req[r].pc = "done"
        /\ req[r].kind = "grade"
        /\ req[r].status = 500
        /\ req[r].body = catchResponse(DecodeFailure["grade"]).body
        /\ objects[idFromName(req[r].sessionId)]["progress"] # Undefined

\* The content slot holds nothing, or a value without an array of questions.
NoQuestionsArray(content) ==
    content = Undefined \/ Field(content, "questions").t # "array"

\* C13: a grade-test request that reads a content slot holding nothing, or a
\* content without a questions array, answers 400 in that step without
\* going on to the model call, and the step changes no slot.
C13_NoTestFound ==
    [][\A r \in Reqs :
          (/\ req[r].pc = "getContent"
           /\ NoQuestionsArray(objects[idFromName(req[r].sessionId)]["content"])
           /\ GradeGetContent(r))
              => /\ req'[r].pc = "done"
                 /\ req'[r].status = 400
                 /\ objects' = objects]_vars

\* C14: the step in which a grade-test request answers 200 leaves the
\* progress slot of its session holding the whole decoded grading, which is
\* also the body of the response, whatever the slot held before, and leaves
\* the content and metadata slots and every other session as they were.
C14_GradeStoresWholePayload ==
    [][\A r \in Reqs :
          (/\ req[r].kind = "grade"
           /\ Moves(r, "saveProgress", "done")
           /\ req'[r].status = 200)
              => LET d == idFromName(req[r].sessionId)
                 IN  /\ objects'[d]["progress"] = JSONRoundTrip(req[r].result)
                     /\ getProgress(objects', req[r].sessionId).value = req'[r].body
                     /\ objects'[d]["content"] = objects[d]["content"]
                     /\ objects'[d]["session"] = objects[d]["session"]
                     /\ \A e \in DurableIds \ {d} : objects'[e] = objects[e]]_vars

C14_Witness ==
    \E r \in Reqs :
        /\ req[r].pc = "done"
        /\ req[r].kind = "grade"
        /\ req[r].status = 200
        /\ objects[idFromName(req[r].sessionId)]["progress"] = req[r].body
        /\ Len(Field(req[r].body, "results").items) = MaxItems
        /\ Len(Field(objects[idFromName(req[r].sessionId)]["content"],
                      "questions").items) = 1

\* The slots the operation table lists as written by each operation.
WritableSlots ==
    [validate |-> {}, getSession |-> {},
     flashcards |-> {"session", "content"}, quiz |-> {"session", "content"},
     test |-> {"session", "content"}, grade |-> {"progress"}]

\* The operation request r is carrying out in the step being taken.
KindInStep(r) == IF req[r].pc = "idle" THEN req'[r].kind ELSE req[r].kind

SessionInStep(r) == IF req[r].pc = "idle" THEN req'[r].sessionId ELSE req[r].sessionId

\* C15: a step of a request changes a slot only if the slot belongs to the
\* session of the request and the operation table lists it for the operation:
\* none for validateClass and getSession, metadata and content for the
\* generate operations, progress for gradeTest.
C15_WritesOnlyListedSlots ==
    [][\A r \in Reqs :
          (req'[r] # req[r] /\ KindInStep(r) \in DOMAIN WritableSlots)
              => \A d \in DurableIds, k \in StorageKeys :
                    objects'[d][k] # objects[d][k]
                        => /\ d = idFromName(SessionInStep(r))
                           /\ k \in WritableSlots[KindInStep(r)]]_vars

C15_Witness ==
    \E r \in Reqs :
        /\ req[r].pc = "done"
        /\ req[r].kind = "quiz"
        /\ req[r].status = 200
        /\ objects[idFromName(req[r].sessionId)]["content"] = req[r].body
        /\ objects[idFromName(req[r].sessionId)]["progress"] # Undefined
        /\ \E d \in DurableIds \ {idFromName(req[r].sessionId)} :
              objects[d]["content"] # Undefined

\* The order of the steps of a generate or grade-test request: receipt and
\* validation, (for grade-test) the read of the stored test, the model call
\* and the decoding of its reply, the saves, the response.
StepOrder ==
    {<<"idle", "ai">>, <<"idle", "getContent">>, <<"idle", "done">>,
     <<"getContent", "ai">>, <<"getContent", "done">>,
     <<"ai", "saveSession">>, <<"ai", "saveProgress">>, <<"ai", "done">>,
     <<"saveSession", "saveContent">>, <<"saveSession", "done">>,
     <<"saveContent", "done">>, <<"saveProgress", "done">>,
     <<"done", "idle">>}

\* C16: a generate or grade-test request takes its steps in the fixed order;
\* it changes storage only in its save steps, which it enters only with a
\* reply that has decoded to an object with the expected array field; and
\* it answers 200 only in the step in which its last save has returned, with
\* the payload in the slot.
C16_FixedStepOrder ==
    [][\A r \in Reqs :
          (req'[r] # req[r] /\ KindInStep(r) \in StoringKinds)
              => /\ <<req[r].pc, req'[r].pc>> \in StepOrder
                 /\ objects' # objects
                       => req[r].pc \in {"saveSession", "saveContent", "saveProgress"}
                 /\ req'[r].pc \in {"saveSession", "saveProgress"}
                       => /\ req[r].pc = "ai"
                          /\ CheckArrayField(req'[r].result,
                                             ExpectedField[req[r].kind]) = "ok"
                 /\ (req'[r].pc = "done" /\ req'[r].status = 200)
                       => /\ req[r].pc =
                                 (IF req[r].kind = "grade" THEN "saveProgress"
                                  ELSE "saveContent")
                          /\ objects'[idFromName(req[r].sessionId)]
                                     [IF req[r].kind = "grade" THEN "progress"
                                      ELSE "content"] = req'[r].body]_vars

C16_Witness ==
    \E r \in Reqs :
        /\ req[r].pc = "saveContent"
        /\ req[r].kind = "test"
        /\ objects[idFromName(req[r].sessionId)]["content"] # Undefined
        /\ objects[idFromName(req[r].sessionId)]["content"]
              # JSONRoundTrip(req[r].result)

\* C17: the step in which a store call of a request fails ends the request
\* without a 200: the handler answers with an error status, or (getSession)
\* the error leaves the handler as a rejection; the body is never the payload
\* of a success.
C17_StoreFaultSurfaces ==
    [][\A r \in Reqs :
          (req'[r] # req[r] /\ (StoreFault(r) \/ HandleGetSessionFault(r)))
              => /\ req'[r].pc = "done"
                 /\ req'[r].status # 200
                 /\ req'[r].status >= 400 \/ req'[r].status = Uncaught.status
                 /\ ~HasField(req'[r].body, "flashcards")
                 /\ ~HasField(req'[r].body, "questions")
                 /\ ~HasField(req'[r].body, "results")]_vars

C17_Witness ==
    \E r \in Reqs :
        /\ req[r].pc = "done"
        /\ req[r].kind = "getSession"
        /\ req[r].status = Uncaught.status
        /\ objects[idFromName(req[r].sessionId)]["content"] # Undefined

\* C18: every request that has ended has an HTTP response, a success body or
\* the error envelope: none has ended by an error leaving its handler and
\* the router uncaught.
C18_EveryRequestAnswered ==
    \A r \in Reqs :
        (req[r].pc = "done" /\ req[r].kind \in DOMAIN WritableSlots)
            => /\ req[r].status \in {200, 400, 500}
               /\ req[r].body.t = "object"

\* The same for the handlers that have a try block of their own.
GuardedHandlersAnswer ==
    \A r \in Reqs :
        (req[r].pc = "done" /\ req[r].kind \in StoringKinds \cup {"validate"})
            => /\ req[r].status \in {200, 400, 500}
               /\ req[r].body.t = "object"

\* The body carries the text of the error: as a field of its own, or after
\* the prefix the validate-class handler puts before it.
Mentions(body, message) ==
    /\ body.t = "object"
    /\ \E k \in DOMAIN body.f :
          /\ body.f[k].t = "text"
          /\ body.f[k].m \in {message, "Error validating class: " \o message}

\* C19: when the model call or a store call of a request rejects with a
\* transport error, the request answers 500 and its body carries none of
\* the text of that error.
C19_TransportErrorIsGeneric ==
    [][\A r \in Reqs :
          (req'[r] # req[r] /\ (AIReject(r) \/ StoreFault(r)))
              => /\ req'[r].status = 500
                 /\ \A m \in TransportMessages : ~Mentions(req'[r].body, m)]_vars

\* The status alone.
TransportErrorIs500 ==
    [][\A r \in Reqs :
          (req'[r] # req[r] /\ (AIReject(r) \/ StoreFault(r)))
              => req'[r].status = 500]_vars

\* The class name is missing, not a string, empty or whitespace only.
ClassNameIsBad(className) ==
    \/ className.t # "string"
    \/ \A i \in 1..Len(className.s) : className.s[i] = " "

\* C20: a validate-class or generate request received with such a class
\* name is answered in the step that receives it, with 400, so without
\* reaching the model call, and the step changes no slot.
C20_BadClassNameRejected ==
    [][\A r \in Reqs :
          (/\ req[r].pc = "idle"
           /\ req'[r].kind \in GenerateKinds \cup {"validate"}
           /\ \E className \in {c \in ClassNames : ClassNameIsBad(c)} :
                 IF req'[r].kind = "validate"
                 THEN ReceiveValidateOf(r, className)
                 ELSE \E topic \in Topics, sessionId \in SessionIdParams :
                         ReceiveGenerateOf(r, req'[r].kind, className, topic,
                                           sessionId))
              => /\ req'[r].pc = "done"
                 /\ req'[r].status = 400
                 /\ objects' = objects]_vars

C20_Witness ==
    \E r \in Reqs :
        /\ req[r].pc = "done"
        /\ req[r].kind = "test"
        /\ req[r].status = 400
        /\ req[r].body = Obj([error |-> Text("Class name cannot be empty")])
        /\ objects[idFromName(req[r].sessionId)]["content"] # Undefined
        /\ objects[idFromName(req[r].sessionId)]["progress"] # Undefined

\* The number of questions the content slot of a session holds (-1 when it
\* holds no array of questions).
StoredQuestionCount(sessionId) ==
    LET content == objects[idFromName(sessionId)]["content"]
    IN  IF NoQuestionsArray(content) THEN -1
        ELSE Len(Field(content, "questions").items)

\* A grade-test request is received with answers, an array shorter than the
\* stored questions of its session.
ReceivesShortAnswers(r, answers) ==
    /\ req[r].pc = "idle"
    /\ req'[r].kind = "grade"
    /\ answers.t = "array"
    /\ \E sessionId \in SessionIdParams :
          /\ Len(answers.items) < StoredQuestionCount(SessionIdOrDefault(sessionId))
          /\ ReceiveGradeOf(r, answers, sessionId)

\* The grading input of a request that goes on to the model call has one
\* record per question, without studentAnswer past the end of the answers.
ShortAnswersPadded(r) ==
    Moves(r, "getContent", "ai")
        => LET input == questionsAndAnswers(Field(req'[r].content, "questions"),
                                            req'[r].answers)
           IN  /\ Len(input) = Len(Field(req'[r].content, "questions").items)
               /\ \A i \in 1..Len(input) :
                     i > Len(req'[r].answers.items)
                         => ~HasField(JSONRoundTrip(input[i]), "studentAnswer")

\* C21: a grade-test request whose answers array is shorter than the stored
\* questions array, the empty array included, is not rejected: it goes on to
\* read the test, and its grading input has one record per question, with
\* no studentAnswer for the questions past the end of the answers.
C21_ShortAnswersGraded ==
    [][\A r \in Reqs :
          /\ \A answers \in AnswerArrays :
                ReceivesShortAnswers(r, answers) => req'[r].pc = "getContent"
          /\ ShortAnswersPadded(r)]_vars

\* The same for the arrays that have at least one answer.
NonEmptyShortAnswersGraded ==
    [][\A r \in Reqs :
          /\ \A answers \in AnswerArrays \ {Arr(<<>>)} :
                ReceivesShortAnswers(r, answers) => req'[r].pc = "getContent"
          /\ ShortAnswersPadded(r)]_vars

\* C22: the grading input has one record per question, in the order of the
\* questions, and the record of a question has the points value of the
\* question whenever the question has one, 0 included, and 10 otherwise.
C22_GradingInputPoints ==
    \A r \in Reqs :
        (req[r].pc = "done" /\ req[r].kind = "questionsAndAnswers")
            => LET questions == req[r].result.items
                   input == req[r].body.items
               IN  /\ Len(input) = Len(questions)
                   /\ \A i \in 1..Len(questions) :
                         /\ Field(input[i], "question") = Field(questions[i], "question")
                         /\ Field(input[i], "points") =
                               (IF HasField(questions[i], "points")
                                THEN Field(questions[i], "points")
                                ELSE Num(10))

\* ---- validateCount ----

ClampedInteger(n) == IF n < COUNT_MIN THEN COUNT_MIN ELSE IF n > COUNT_MAX THEN COUNT_MAX ELSE n

\* A string that writes an integer and nothing else.
IsIntegerText(count) ==
    /\ count.t = "string"
    /\ LET text == IF count.s # <<>> /\ Head(count.s) = "-" THEN Tail(count.s)
                    ELSE count.s
       IN  text # <<>> /\ \A i \in 1..Len(text) : text[i] \in DOMAIN DigitValue

IsNumeric(count) == count.t = "number" \/ IsIntegerText(count)

\* Ten times the value of a numeric count.
TenTimes(count) ==
    IF count.t = "number"
    THEN 10 * count.n + (IF "tenth" \in DOMAIN count THEN count.tenth ELSE 0)
    ELSE IF Head(count.s) = "-" THEN -10 * ValueOfDigits(Tail(count.s))
    ELSE 10 * ValueOfDigits(count.s)

CountEvaluations ==
    {r \in Reqs : req[r].pc = "done" /\ req[r].kind = "validateCount"}

LeadingInteger ==
    (Str(<<"7">>) :> 7) @@ (Str(<<" ", "7">>) :> 7)
        @@ (Str(<<"1", "2", "a", "b", "c">>) :> 12)
        @@ (Str(<<"-", "3">>) :> -3) @@ (Str(<<"9", "9">>) :> 99)

C24_NonNumberCountUsesDefault ==
    \A r \in Reqs :
        req[r].pc = "done" /\ req[r].kind = "validatedCount"
            => LET count == req[r].result
                   kind == req[r].content.s[1]
               IN  /\ count = Undefined => req[r].body = Num(DefaultCount[kind])
                   /\ ~IsNumeric(count)
                        => req[r].body = validatedCount(kind, Undefined)

\* Only a count that is omitted gets the default.
OmittedCountUsesDefault ==
    \A r \in Reqs :
        req[r].pc = "done" /\ req[r].kind = "validatedCount"
            /\ req[r].result = Undefined
            => req[r].body = Num(DefaultCount[req[r].content.s[1]])

\* ---- parseAIResponse ----

DecodeEvaluations ==
    {r \in Reqs : req[r].pc = "done" /\ req[r].kind = "parseAIResponse"}

\* A value of the kind an expected field names: an array for kind array, an
\* object and no scalar for kind object; nullIsObject tells on which side
\* null falls.
OfKind(v, kind, nullIsObject) ==
    IF kind = "array" THEN v.t = "array"
    ELSE v.t \in {"object", "array"} \/ (nullIsObject /\ v.t = "null")

Lacks(parsedData, entry) == entry[1] \notin DOMAIN parsedData.f

WrongKind(parsedData, entry, nullIsObject) ==
    /\ ~Lacks(parsedData, entry)
    /\ ~OfKind(parsedData.f[entry[1]], entry[2], nullIsObject)

MeetsStructure(parsedData, structure, nullIsObject) ==
    \A i \in DOMAIN structure :
        /\ ~Lacks(parsedData, structure[i])
        /\ ~WrongKind(parsedData, structure[i], nullIsObject)

\* C25: when the reply is already a non-null object and passes the field
\* checks, decode returns that same object, no field added, removed or
\* coerced.
C25_ObjectReplyReturnedAsIs ==
    \A r \in DecodeEvaluations :
        LET reply == req[r].result
            returned == req[r].body
        IN  reply.t = "object"
                => /\ MeetsStructure(reply, req[r].content.entries, FALSE)
                        => returned.ok
                   /\ returned.ok => returned.value = reply

\* An object with a field nobody expects has been decoded.
C25_Witness ==
    \E r \in DecodeEvaluations :
        /\ req[r].result =
                Obj([flashcards |-> Arr(<<>>), summary |-> Str(<<"x">>)])
        /\ req[r].content.entries = <<<<"flashcards", "array">>>>
        /\ req[r].body.ok
        /\ req[r].body.value = req[r].result

\* No "{" of the text comes before a "}".
NoBraceSpan(text) ==
    ~\E i \in 1..Len(text), j \in 1..Len(text) :
        i < j /\ text[i] = "{" /\ text[j] = "}"

Failed(returned, message) ==
    ~returned.ok /\ returned.error = message /\ returned.value = Undefined

\* C26: decode fails with NoJsonFound when the reply is a string without
\* a "{" ... "}" span, and with UnexpectedFormat when the reply is neither
\* an object nor a string; no result is returned in either case.
C26_NoJsonOrUnexpectedFormat ==
    \A r \in DecodeEvaluations :
        LET reply == req[r].result
            returned == req[r].body
        IN  /\ reply.t = "string" /\ NoBraceSpan(reply.s)
                => Failed(returned, "No JSON found in response")
            /\ reply.t \in {"null", "undefined", "number", "true", "false"}
                => Failed(returned, "Unexpected response format")

\* A string whose only braces are a "}" before a "{" has been refused, with
\* nothing expected of the result.
C26_Witness ==
    \E r \in DecodeEvaluations :
        /\ req[r].result = Str(<<"}", "x", "{">>)
        /\ req[r].content.entries = <<>>
        /\ Failed(req[r].body, "No JSON found in response")

WrongFieldType == {"Field should be an array", "Field should be an object"}

\* The field checks on a reply that is already an object, null counting as
\* an object or not.
FieldChecks(nullIsObject) ==
    \A r \in DecodeEvaluations :
        LET reply == req[r].result
            structure == req[r].content.entries
            returned == req[r].body
            lacking == {i \in DOMAIN structure : Lacks(reply, structure[i])}
            wrong == {i \in DOMAIN structure :
                         WrongKind(reply, structure[i], nullIsObject)}
        IN  reply.t = "object"
                => /\ returned.ok <=> MeetsStructure(reply, structure, nullIsObject)
                   /\ lacking # {} /\ wrong = {}
                        => Failed(returned, "Missing expected field")
                   /\ wrong # {} /\ lacking = {}
                        => ~returned.ok /\ returned.error \in WrongFieldType
                              /\ returned.value = Undefined
                   /\ wrong # {} /\ lacking # {}
                        => ~returned.ok
                              /\ returned.error \in
                                    WrongFieldType \cup {"Missing expected field"}

\* C27: for every expected field of kind array or object, decode fails with
\* MissingField when the parsed object lacks the field and with
\* WrongFieldType when its value is not of that kind (a non-array for kind
\* array; a scalar or null for kind object); decode succeeds only if every
\* expected field is present with a value of the expected kind.
C27_FieldChecks == FieldChecks(FALSE)

\* The same with null passing for an object.
FieldChecksNullPasses == FieldChecks(TRUE)

\* Replies made of prose without braces around one JSON object, and that
\* object.
WrappedObject ==
    (Str(<<"x", " ", "{", "F", "[", "{", "}", "]", "}", " ", "x">>)
            :> Obj([flashcards |-> Arr(<<EmptyObject>>)]))
        @@ (Str(<<" ", "{", "F", "[", "]", "}", " ">>)
            :> Obj([flashcards |-> Arr(<<>>)]))
        @@ (Str(<<"x", "{", "}", "x">>) :> EmptyObject)

\* Replies whose span from the first "{" to the last "}" is not JSON.
InvalidSpans ==
    {Str(<<"{", "}", "x", "{", "}">>),
     Str(<<"{", "F", "[", "]", "}", "{", "F", "[", "]", "}">>),
     Str(<<"{", "x", "}">>),
     Str(<<"{", "F", "[", "{", "]", "}">>)}

\* C28: the span handed to the JSON parser runs from the first "{" to the
\* last "}" of a string reply: prose without braces, one valid JSON object,
\* prose without braces decodes to exactly that object, and a span that is
\* not valid JSON makes decode fail, with no partial result.
C28_GreedySpan ==
    \A r \in DecodeEvaluations :
        LET reply == req[r].result
            structure == req[r].content.entries
            returned == req[r].body
        IN  /\ reply \in DOMAIN WrappedObject
                => /\ returned.ok => returned.value = WrappedObject[reply]
                   /\ MeetsStructure(WrappedObject[reply], structure, FALSE)
                        => returned.ok
                   /\ ~returned.ok
                        => returned.error \in
                              WrongFieldType \cup {"Missing expected field"}
            /\ reply \in InvalidSpans => Failed(returned, "SyntaxError")

\* An object between two stretches of prose has been decoded, its array
\* and the object inside that array included.
C28_Witness ==
    \E r \in DecodeEvaluations :
        /\ req[r].result =
                Str(<<"x", " ", "{", "F", "[", "{", "}", "]", "}", " ", "x">>)
        /\ req[r].content.entries = <<<<"flashcards", "array">>>>
        /\ req[r].body.ok
        /\ req[r].body.value = Obj([flashcards |-> Arr(<<EmptyObject>>)])

\* ---- retries ----

\* C29: no operation retries: a validate-class, generate or grade-test
\* request invokes the model at most once, also when the reply does not
\* decode.  A request is at "ai" while its one call of env.AI.run is
\* pending: it gets there only from its receipt (or, for grade-test, from
\* the read of the stored test, itself entered only at receipt), and the
\* step that takes the reply leaves "ai" for the saves or for the response;
\* a reply that does not decode ends the request with a 500.
C29_ModelCalledOnce ==
    [][\A r \in Reqs :
          req'[r] # req[r]
              => /\ req'[r].pc = "ai" => req[r].pc \in {"idle", "getContent"}
                 /\ req'[r].pc = "getContent" => req[r].pc = "idle"
                 /\ req[r].pc = "ai"
                       => req'[r].pc \in {"saveSession", "saveProgress", "done"}
                 /\ (/\ req[r].pc = "ai"
                     /\ req[r].kind \in StoringKinds
                     /\ \E reply \in FaultyReplies :
                           /\ ~parseAIResponse(reply, ExpectedField[req[r].kind]).ok
                           /\ GenerateDecodeOf(r, reply) \/ GradeDecodeOf(r, reply))
                       => req'[r].pc = "done" /\ req'[r].status = 500]_vars

\* A generate-flashcards request has been answered after a reply that did
\* not decode.
C29_Witness ==
    \E r \in Reqs :
        /\ req[r].pc = "done"
        /\ req[r].kind = "flashcards"
        /\ req[r].status = 500
        /\ req[r].body = catchResponse(DecodeFailure["flashcards"]).body

\* ---- the body of a decode failure ----

\* Two callers have been answered a decode failure by the same handler of
\* the given file for the same operation.
BothFailedToDecode(r1, r2, file) ==
    /\ req[r1].pc = "done" /\ req[r2].pc = "done"
    /\ req[r1].kind = file /\ req[r2].kind = file
    /\ req[r1].content = req[r2].content
    /\ req[r1].body.status = 500 /\ req[r2].body.status = 500

\* C30: the body of a decode-failure response does not depend on the raw
\* reply of the model: any two replies that both fail to decode in the same
\* operation get identical response bodies.
C30_DecodeFailureBodyFixed ==
    \A r1 \in Reqs, r2 \in Reqs, file \in {"handlers", "index"} :
        BothFailedToDecode(r1, r2, file)
            => req[r1].body.body = req[r2].body.body

\* The same for the handlers of src/handlers alone.
HandlersDecodeFailureBodyFixed ==
    \A r1 \in Reqs, r2 \in Reqs :
        BothFailedToDecode(r1, r2, "handlers")
            => req[r1].body.body = req[r2].body.body

\* ---- validateClass ----

\* text without the spaces at its two ends.
IsTrimOf(trimmed, text) ==
    /\ trimmed = <<>> \/ (trimmed[1] # " " /\ trimmed[Len(trimmed)] # " ")
    /\ \E i \in 1..(Len(text) + 1) :
          /\ Len(trimmed) <= Len(text) - i + 1
          /\ trimmed = SubSeq(text, i, i + Len(trimmed) - 1)
          /\ \A j \in 1..Len(text) :
                (j < i \/ j >= i + Len(trimmed)) => text[j] = " "

\* text begins with the letters of VALID, each in either case.
BeginsWithValid(text) ==
    /\ Len(text) >= 5
    /\ \A i \in 1..5 :
          text[i] \in {<<"V", "A", "L", "I", "D">>[i], <<"v", "a", "l", "i", "d">>[i]}

\* C31: validateClass returns valid = true exactly when the trimmed reply
\* of the model begins with VALID, compared without regard to case; for
\* every other reply it returns valid = false with the trimmed reply as the
\* message.
C31_VerdictByPrefix ==
    \A r \in Reqs :
        (req[r].pc = "done" /\ req[r].kind = "validateClass")
            => LET reply == req[r].result.s
                   returned == req[r].body
                   trimmed == CHOOSE t \in {SubSeq(reply, i, j) :
                                               i \in 1..(Len(reply) + 1),
                                               j \in 0..Len(reply)} :
                                 IsTrimOf(t, reply)
               IN  /\ returned.f["valid"] \in {JsTrue, JsFalse}
                   /\ returned.f["valid"] = JsTrue <=> BeginsWithValid(trimmed)
                   /\ returned.f["valid"] = JsFalse
                        => returned.f["message"] = Str(trimmed)

\* A verdict in mixed case between spaces has been read as valid.
C31_Witness ==
    \E r \in Reqs :
        /\ req[r].pc = "done" /\ req[r].kind = "validateClass"
        /\ req[r].result = Str(<<" ", "v", "A", "l", "I", "d", " ">>)
        /\ req[r].body.f["valid"] = JsTrue

\* ---- the default session ----

\* Request r is received in this step with the given sessionId in its body
\* (generate, grade-test) or in its query (session).
ReceivedWith(r, sessionId) ==
    \/ \E kind \in GenerateKinds, className \in ClassNames, topic \in Topics :
          ReceiveGenerateOf(r, kind, className, topic, sessionId)
    \/ \E answers \in AnswerArrays : ReceiveGradeOf(r, answers, sessionId)
    \/ HandleGetSessionOn(r, SessionIdOrDefault(sessionId),
                          getSession(objects, SessionIdOrDefault(sessionId)))

\* C32: a study-mode request that omits sessionId acts on the session named
\* "default".  The step that receives it leads to the very state the same
\* request with sessionId = "default" leads to, with "default" as the
\* session every later step of the request reads and writes.
C32_OmittedSessionIsDefault ==
    [][\A r \in Reqs :
          (req[r].pc = "idle" /\ req'[r] # req[r] /\ ReceivedWith(r, Missing))
              => /\ req'[r].sessionId = "default"
                 /\ ReceivedWith(r, "default")
                 /\ \A d \in DurableIds \ {idFromName("default")} :
                       objects'[d] = objects[d]]_vars

\* A generate request has stored its content in the default session and a
\* grade-test request on that session is reading it.
C32_Witness ==
    \E r \in Reqs :
        /\ req[r].kind = "grade"
        /\ req[r].pc = "ai"
        /\ req[r].sessionId = "default"
        /\ objects[idFromName("default")]["content"] # Undefined
        /\ objects[idFromName("s1")]["content"] = Undefined

----------------------------------------------------------------------------
(* Chat history *)

\* The last n entries of s.
LastEntries(s, n) ==
    IF Len(s) <= n THEN s ELSE SubSeq(s, Len(s) - n + 1, Len(s))

\* A read of the history of sessionId returns an array.
HistoryReadable(objs, sessionId) ==
    /\ ~getHistory(objs, sessionId).threw
    /\ getHistory(objs, sessionId).value.t = "array"

\* The entries a read of the history of sessionId returns.
HistoryOf(objs, sessionId) == getHistory(objs, sessionId).value.items

\* Request r ends its chat turn in this step.
EndsChatTurn(r) ==
    /\ req[r].kind = "chat"
    /\ req[r].pc = "getHistory"
    /\ req'[r].pc = "done"

\* C33: after a chat turn the stored history holds at most 20 entries, the
\* most recent ones in their original order: the trimming is done when the
\* history is written and drops the oldest entries first, so the entries that
\* precede the pair of the turn are the last 18 of those stored before it.
C33_HistoryKeepsLastTwenty ==
    [][\A r \in Reqs :
          EndsChatTurn(r)
              => /\ HistoryReadable(objects', req[r].sessionId)
                 /\ Len(HistoryOf(objects', req[r].sessionId)) <= 20
                 /\ Len(HistoryOf(objects', req[r].sessionId)) >= 2
                 /\ HistoryReadable(objects, req[r].sessionId)
                      => LET after == HistoryOf(objects', req[r].sessionId)
                         IN  SubSeq(after, 1, Len(after) - 2)
                                = LastEntries(HistoryOf(objects, req[r].sessionId),
                                              18)]_vars

\* C34: each chat turn appends exactly two entries to the history of its
\* session, the user turn then the assistant turn, in one step: the turn is
\* answered with the reply of the model, the history read after it ends
\* with the message of the user followed by that reply, and no read of a
\* history sees an odd number of entries.
C34_TurnAppendsPair ==
    [][\A r \in Reqs :
          EndsChatTurn(r)
              => /\ req'[r].status = 200
                 /\ HistoryReadable(objects', req[r].sessionId)
                 /\ LET after == HistoryOf(objects', req[r].sessionId)
                    IN  /\ Len(after) >= 2
                        /\ Len(after) % 2 = 0
                        /\ after[Len(after) - 1] = Message("user", req[r].content)
                        /\ after[Len(after)]
                              = Message("assistant", Field(req'[r].body, "response"))]_vars

----------------------------------------------------------------------------
(* The two writes of a generate request *)

\* C36: the two writes of a generate request are all-or-nothing.  The
\* handlers undo no write, so a request that answers an error has stored
\* nothing in the step that fails, and a request that answers 200 leaves the
\* metadata slot holding its {className, mode, topic} and the content slot
\* holding its payload.
C36_GenerateWritesAllOrNothing ==
    [][\A r \in Reqs :
          (/\ req[r].kind \in GenerateKinds
           /\ req[r].pc \in {"saveSession", "saveContent"}
           /\ req'[r].pc = "done")
              => IF req'[r].status = 200
                 THEN /\ getSession(objects', req[r].sessionId).value
                            = jsonResponse(MetadataOf(r), 200).body
                      /\ getContent(objects', req[r].sessionId).value
                            = jsonResponse(req[r].result, 200).body
                 ELSE objects' = objects]_vars

\* The half of it that the content write alone decides: a request that
\* answers 200 has stored its payload, and one whose store call was rejected
\* before the object served it has stored nothing.
ContentStoredOnSuccess ==
    [][\A r \in Reqs :
          (/\ req[r].kind \in GenerateKinds
           /\ req[r].pc \in {"saveSession", "saveContent"}
           /\ req'[r].pc = "done")
              => /\ req'[r].status = 200
                    => getContent(objects', req[r].sessionId).value
                          = jsonResponse(req[r].result, 200).body
                 /\ objects' # objects => req[r].pc = "saveContent"]_vars

----------------------------------------------------------------------------
(* Grading while content is regenerated *)

\* C37: the grading a grade-test request stores grades the questions that
\* are in the content slot when progress is written.  The request reads the
\* content once and stores its grading unconditionally, so this is: when the
\* model resolves with the grading, the slot still holds the content the
\* request read, and no step of another request changes the slot while the
\* request waits to write progress.
C37_GradesStoredContent ==
    [][\A r \in Reqs :
          req[r].kind = "grade"
              => /\ (req[r].pc = "ai" /\ req'[r].pc = "saveProgress")
                    => getContent(objects, req[r].sessionId).value = req[r].content
                 /\ (req[r].pc = "saveProgress" /\ req'[r].pc = "saveProgress")
                    => objects'[idFromName(req[r].sessionId)]["content"]
                          = objects[idFromName(req[r].sessionId)]["content"]]_vars

----------------------------------------------------------------------------
(* Frame of the session store *)

\* Request r is served by the durable object of a session in this step.
Fetched(r) == req[r].pc = "idle" /\ req'[r].kind = "fetch"

\* C38: a request to the session store changes stored state only if it is a
\* POST to /session, /content, /progress or /clear, and then only in the
\* object it addresses; every request of another method, and every request
\* answered 404, leaves all slots of every session as they were.
C38_StoreFrame ==
    [][\A r \in Reqs :
          Fetched(r)
              => /\ objects' # objects
                    => /\ req'[r].content = Text("POST")
                       /\ req'[r].answers \in {Text("/session"), Text("/content"),
                                               Text("/progress"), Text("/clear")}
                 /\ req'[r].content # Text("POST") => objects' = objects
                 /\ req'[r].status = 404 => objects' = objects
                 /\ \A d \in DurableIds \ {idFromName(req'[r].sessionId)} :
                       objects'[d] = objects[d]]_vars

\* A GET of /clear answered 404 while the content and progress slots of
\* every session are filled.
C38_Witness ==
    /\ \A d \in DurableIds :
          objects[d]["content"] # Undefined /\ objects[d]["progress"] # Undefined
    /\ req["r1"].pc = "done" /\ req["r1"].kind = "fetch"
    /\ req["r1"].answers = Text("/clear") /\ req["r1"].content = Text("GET")
    /\ req["r1"].status = 404
    /\ req["r2"].pc = "idle"

----------------------------------------------------------------------------
(* The handlers of handlers/*.js and those inside index.js *)

\* C39: the handlers of handlers/*.js and the handlers index.js defines for
\* itself are equivalent: given the same request body, stored state and reply
\* of the model they answer the same HTTP status and leave the session store
\* in the same state.
C39_HandlersEquivalent ==
    \A r \in Reqs :
        (req[r].pc = "done" /\ req[r].kind = "outcomes")
            => /\ req[r].content.status = req[r].body.status
               /\ req[r].content.objects = req[r].body.objects

\* They are on a request body both accept and a store that holds nothing or
\* a value whose questions, if any, are an array.
EquivalentOnAcceptedBodies ==
    \A r \in Reqs :
        (/\ req[r].pc = "done" /\ req[r].kind = "outcomes"
         /\ IF req[r].result.kind = "flashcards"
            THEN validateClassName(req[r].result.className) = "ok"
            ELSE validateAnswers(req[r].result.answers) = "ok"
         /\ Field(req[r].result.stored, "questions").t # "string")
            => /\ req[r].content.status = req[r].body.status
               /\ req[r].content.objects = req[r].body.objects

====
